---- MODULE Spec2Model ----
(***************************************************************************)
(* Fast Todos (src/main.ts): the task parser, the query interpreter of a   *)
(* `todos` block, the shared task cache and the grace-period countdown of  *)
(* a rendered block.                                                       *)
(*                                                                         *)
(* Text is modelled as TLA+ strings, character by character: the regular   *)
(* expressions and String methods of the source are operators over         *)
(* Len/SubSeq/\o.  Time is counted in quanta of 500 ms.                     *)
(***************************************************************************)
EXTENDS Integers, Sequences, FiniteSets, TLC

(***************************************************************************)
(* String primitives (JavaScript String methods used by the source)        *)
(***************************************************************************)
Ch(s, i) == IF i >= 1 /\ i <= Len(s) THEN SubSeq(s, i, i) ELSE ""

From(s, i) == IF i > Len(s) THEN "" ELSE SubSeq(s, i, Len(s))

\* \s of the regular expressions and the white space of trim()
IsWs(c) == c \in {" ", "\t"}

IsDigit(c) == c \in {"0", "1", "2", "3", "4", "5", "6", "7", "8", "9"}

DigitVal(c) ==
    CASE c = "0" -> 0 [] c = "1" -> 1 [] c = "2" -> 2 [] c = "3" -> 3
      [] c = "4" -> 4 [] c = "5" -> 5 [] c = "6" -> 6 [] c = "7" -> 7
      [] c = "8" -> 8 [] c = "9" -> 9

\* the upper-case letters and their lower-case forms
LowerChars ==
    [A |-> "a", B |-> "b", C |-> "c", D |-> "d", E |-> "e", F |-> "f", G |-> "g",
     H |-> "h", I |-> "i", J |-> "j", K |-> "k", L |-> "l", M |-> "m", N |-> "n",
     O |-> "o", P |-> "p", Q |-> "q", R |-> "r", S |-> "s", T |-> "t", U |-> "u",
     V |-> "v", W |-> "w", X |-> "x", Y |-> "y", Z |-> "z"]

UpperChars == DOMAIN LowerChars

LowerCh(c) == IF c \in UpperChars THEN LowerChars[c] ELSE c

RECURSIVE ToLowerCase(_)
ToLowerCase(s) ==
    IF s = "" THEN "" ELSE LowerCh(Head(s)) \o ToLowerCase(Tail(s))

\* number of leading / trailing white-space characters
RECURSIVE LeadWs(_)
LeadWs(s) == IF s = "" \/ ~IsWs(Head(s)) THEN 0 ELSE 1 + LeadWs(Tail(s))

RECURSIVE TrailWs(_)
TrailWs(s) ==
    IF s = "" \/ ~IsWs(Ch(s, Len(s))) THEN 0
    ELSE 1 + TrailWs(SubSeq(s, 1, Len(s) - 1))

TrimEnd(s) == SubSeq(s, 1, Len(s) - TrailWs(s))

Trim(s) ==
    LET lead == LeadWs(s)
    IN  IF lead = Len(s) THEN "" ELSE SubSeq(s, lead + 1, Len(s) - TrailWs(s))

StartsWith(s, p) == Len(s) >= Len(p) /\ SubSeq(s, 1, Len(p)) = p

EndsWith(s, p) == Len(s) >= Len(p) /\ SubSeq(s, Len(s) - Len(p) + 1, Len(s)) = p

\* String.prototype.indexOf, 1-based; 0 when p does not occur at or after i
IndexFrom(s, p, i) ==
    LET hits == {k \in i..(Len(s) - Len(p) + 1) : SubSeq(s, k, k + Len(p) - 1) = p}
    IN  IF hits = {} THEN 0 ELSE CHOOSE k \in hits : \A m \in hits : k <= m

IndexOf(s, p) == IndexFrom(s, p, 1)

LastIndexOf(s, p) ==
    LET hits == {k \in 1..(Len(s) - Len(p) + 1) : SubSeq(s, k, k + Len(p) - 1) = p}
    IN  IF hits = {} THEN 0 ELSE CHOOSE k \in hits : \A m \in hits : k >= m

Includes(s, p) == IndexOf(s, p) # 0

\* String.prototype.replace with a string pattern: the first occurrence only
ReplaceFirst(s, p, r) ==
    LET k == IndexOf(s, p)
    IN  IF k = 0 THEN s ELSE SubSeq(s, 1, k - 1) \o r \o From(s, k + Len(p))

\* s.split(sep) for a one-character separator
RECURSIVE SplitOn(_, _)
SplitOn(s, sep) ==
    LET k == IndexOf(s, sep)
    IN  IF k = 0 THEN <<s>>
        ELSE <<SubSeq(s, 1, k - 1)>> \o SplitOn(From(s, k + 1), sep)

RECURSIVE DigitsValue(_, _)
DigitsValue(s, acc) ==
    IF s = "" \/ ~IsDigit(Head(s)) THEN acc
    ELSE DigitsValue(Tail(s), 10 * acc + DigitVal(Head(s)))

\* parseInt(s) in radix 10: white space, an optional sign, then digits;
\* NaN when no digit follows
NaN == [nan |-> TRUE, val |-> 0]

ParseInt(s) ==
    LET t    == From(s, LeadWs(s) + 1)
        neg  == Ch(t, 1) = "-"
        body == IF Ch(t, 1) \in {"-", "+"} THEN Tail(t) ELSE t
    IN  IF body = "" \/ ~IsDigit(Head(body)) THEN NaN
        ELSE [nan |-> FALSE,
              val |-> IF neg THEN 0 - DigitsValue(body, 0) ELSE DigitsValue(body, 0)]

\* localeCompare over the modelled alphabet: primary order on the lower-cased
\* text (punctuation, digits, letters), lower case before upper case on a tie
Collation == " \t_-,;:!?.'()[]{}@*/&#%+0123456789abcdefghijklmnopqrstuvwxyz"

Rank(c) == IndexOf(Collation, c)

RECURSIVE RankCompare(_, _)
RankCompare(a, b) ==
    IF a = "" /\ b = "" THEN 0
    ELSE IF a = "" THEN -1
    ELSE IF b = "" THEN 1
    ELSE IF Rank(Head(a)) < Rank(Head(b)) THEN -1
    ELSE IF Rank(Head(a)) > Rank(Head(b)) THEN 1
    ELSE RankCompare(Tail(a), Tail(b))

RECURSIVE CaseCompare(_, _)
CaseCompare(a, b) ==
    IF a = "" \/ b = "" THEN 0
    ELSE IF Head(a) = Head(b) THEN CaseCompare(Tail(a), Tail(b))
    ELSE IF LowerCh(Head(a)) = Head(a) THEN -1 ELSE 1

LocaleCompare(a, b) ==
    LET primary == RankCompare(ToLowerCase(a), ToLowerCase(b))
    IN  IF primary # 0 THEN primary ELSE CaseCompare(a, b)

(***************************************************************************)
(* Regular expressions of the source                                       *)
(***************************************************************************)
\* [-*+\d\.\s]
IsMarkerCh(c) == c \in {"-", "*", "+", "."} \/ IsDigit(c) \/ IsWs(c)

\* length of the longest prefix of s made of marker characters
MarkerRun(s) ==
    IF \A i \in 1..Len(s) : IsMarkerCh(Ch(s, i)) THEN Len(s)
    ELSE (CHOOSE i \in 1..Len(s) :
            ~IsMarkerCh(Ch(s, i)) /\ \A j \in 1..(i - 1) : IsMarkerCh(Ch(s, j))) - 1

IsCheckbox(t) == t \in {"[ ]", "[x]", "[X]"}

\* /^(\s*[-*+\d\.\s]*\s*\[[ xX]\])(.*)/ : the length of group 1, 0 when the
\* line does not match.  "[" is no marker character, so the three starred
\* parts together are exactly the marker run before the first "[".
TaskPrefixLen(line) ==
    LET k == MarkerRun(line)
    IN  IF k + 3 <= Len(line) /\ IsCheckbox(SubSeq(line, k + 1, k + 3)) THEN k + 3 ELSE 0

\* /^(\s*[-*+\d\.\s]*\s*\[[ xX]\]\s*)(.*)/ : group 1 also takes the white
\* space after the checkbox
TaskPrefixWsLen(line) ==
    LET k == TaskPrefixLen(line)
    IN  IF k = 0 THEN 0 ELSE k + LeadWs(From(line, k + 1))

\* "[" key ":" at position i, the key compared case-insensitively: the
\* position of the colon, 0 when there is no such opening at i
TagColonAt(s, i, keys) ==
    IF Ch(s, i) # "[" THEN 0
    ELSE LET ks == {k \in keys :
                      /\ i + Len(k) + 1 <= Len(s)
                      /\ ToLowerCase(SubSeq(s, i + 1, i + Len(k))) = k
                      /\ Ch(s, i + Len(k) + 1) = ":"}
         IN  IF ks = {} THEN 0 ELSE i + Len(CHOOSE k \in ks : TRUE) + 1

CompletionKeys == {"completed", "completion"}
MetaKeys == {"created", "completed", "completion", "due", "priority"}

\* /\[(?:completed|completion):\s*[^\]]*\]/i at position i: the position of
\* the closing bracket, 0 when there is no match at i
CompletionTagEnd(s, i) ==
    LET c == TagColonAt(s, i, CompletionKeys)
    IN  IF c = 0 THEN 0 ELSE IndexFrom(s, "]", c + 1)

\* s.replace(/\[(?:completed|completion):\s*[^\]]*\]/gi, '')
RECURSIVE StripCompletion(_)
StripCompletion(s) ==
    IF s = "" THEN ""
    ELSE LET e == CompletionTagEnd(s, 1)
         IN  IF e # 0 THEN StripCompletion(From(s, e + 1))
             ELSE Head(s) \o StripCompletion(Tail(s))

\* /\[(created|completed|completion|due|priority):+[^\]]+\]/i at position i:
\* at least one character must stand between the first colon and the "]"
MetaTagEnd(s, i) ==
    LET c == TagColonAt(s, i, MetaKeys)
        e == IF c = 0 THEN 0 ELSE IndexFrom(s, "]", c + 1)
    IN  IF e > c + 1 THEN e ELSE 0

\* s.replace(/\[(created|completed|completion|due|priority):+[^\]]+\]/gi, '')
RECURSIVE StripMeta(_)
StripMeta(s) ==
    IF s = "" THEN ""
    ELSE LET e == MetaTagEnd(s, 1)
         IN  IF e # 0 THEN StripMeta(From(s, e + 1))
             ELSE Head(s) \o StripMeta(Tail(s))

\* number of leading ":" characters
RECURSIVE ColonRun(_)
ColonRun(s) == IF s # "" /\ Head(s) = ":" THEN 1 + ColonRun(Tail(s)) ELSE 0

\* group 2 of /\[(completed|completion):+\s*([^\]]+)\]/i for the text r that
\* stands between the first colon and the "]" (r is not empty): ":+" and
\* "\s*" are greedy and give one character back when nothing else is left
DateGroup(r) ==
    LET a == ColonRun(r)
        b == LeadWs(From(r, a + 1))
        t == From(r, a + b + 1)
    IN  IF t # "" THEN t ELSE SubSeq(r, Len(r), Len(r))

\* rawContent.match(/\[(completed|completion):+\s*([^\]]+)\]/i): group 2 of
\* the first match, "" (undefined) when there is none
RECURSIVE CompletedDateOf(_)
CompletedDateOf(s) ==
    IF s = "" THEN ""
    ELSE LET c == TagColonAt(s, 1, CompletionKeys)
             e == IF c = 0 THEN 0 ELSE IndexFrom(s, "]", c + 1)
         IN  IF e > c + 1 THEN DateGroup(SubSeq(s, c + 1, e - 1))
             ELSE CompletedDateOf(Tail(s))

\* rawContent.match(/\[priority:+\s*(high|normal|low)\]/i): group 1 of the
\* first match in lower case, "normal" when there is none
RECURSIVE PriorityOf(_)
PriorityOf(s) ==
    IF s = "" THEN "normal"
    ELSE LET c == TagColonAt(s, 1, {"priority"})
             e == IF c = 0 THEN 0 ELSE IndexFrom(s, "]", c + 1)
             r == IF e > c + 1 THEN SubSeq(s, c + 1, e - 1) ELSE ""
             a == ColonRun(r)
             v == ToLowerCase(From(r, a + LeadWs(From(r, a + 1)) + 1))
         IN  IF v \in {"high", "normal", "low"} THEN v ELSE PriorityOf(Tail(s))

(***************************************************************************)
(* Task Parser                                                             *)
(***************************************************************************)
NoDescription == "(No Description)"

\* FastTodosRenderer.parseTaskLine
parseTaskLine(line, lineNum, path, isCompleted) ==
    LET k          == TaskPrefixLen(line)
        rawContent == IF k # 0 THEN From(line, k + 1) ELSE line
        display    == Trim(StripMeta(rawContent))
    IN  [text          |-> line,
         cleanText     |-> IF display = "" THEN NoDescription ELSE display,
         completed     |-> isCompleted,
         line          |-> lineNum,
         path          |-> path,
         completedDate |-> CompletedDateOf(rawContent),
         priority      |-> PriorityOf(rawContent)]

TaskId(t) == <<t.path, t.line>>

(***************************************************************************)
(* Query Language Interpreter                                              *)
(***************************************************************************)
\* /\s+W\s+/ matched at position i of s: the position after the match, 0
\* when there is no match at i
WordMatchEnd(s, i, w) ==
    IF ~IsWs(Ch(s, i)) THEN 0
    ELSE LET j == i + LeadWs(From(s, i))
             k == j + Len(w)
         IN  IF k <= Len(s) /\ SubSeq(s, j, k - 1) = w /\ IsWs(Ch(s, k))
             THEN k + LeadWs(From(s, k))
             ELSE 0

\* s.split(/\s+W\s+/)
RECURSIVE SplitWord(_, _)
SplitWord(s, w) ==
    LET hits == {i \in 1..Len(s) : WordMatchEnd(s, i, w) # 0}
    IN  IF hits = {} THEN <<s>>
        ELSE LET i == CHOOSE h \in hits : \A m \in hits : h <= m
             IN  <<SubSeq(s, 1, i - 1)>> \o SplitWord(From(s, WordMatchEnd(s, i, w)), w)

\* the "priority is " test of evaluateAtom.  It stands before the
\* "priority is not " test, so it also takes every "priority is not ..." atom.
PriorityIsAtom(low, task) ==
    task.priority = Trim(ReplaceFirst(low, "priority is ", ""))

\* an unknown atom that excludes
DefaultAtomValue_Closed == FALSE

\* the last return of evaluateAtom
DefaultAtomValue == TRUE

\* `not done` without the countdown clause
NotDoneAtom_Plain(task, countdowns) == ~task.completed

\* the `not done` branch of evaluateAtom
NotDoneAtom(task, countdowns) == ~task.completed \/ TaskId(task) \in countdowns

\* FastTodosRenderer.evaluateAtom; countdowns is this.activeCountdowns
evaluateAtom(atom, task, countdowns, now) ==
    LET low == Trim(ToLowerCase(atom))
    IN  IF low = "not done" THEN NotDoneAtom(task, countdowns)
        ELSE IF low = "done" \/ low = "is done" THEN task.completed
        ELSE IF low = "done today" THEN task.completed /\ task.completedDate = now
        ELSE IF StartsWith(low, "path includes ")
             THEN Includes(ToLowerCase(task.path), Trim(ReplaceFirst(low, "path includes ", "")))
        ELSE IF StartsWith(low, "tag includes ")
             THEN Includes(ToLowerCase(task.text), Trim(ReplaceFirst(low, "tag includes ", "")))
        ELSE IF StartsWith(low, "priority is ") THEN PriorityIsAtom(low, task)
        ELSE IF StartsWith(low, "priority is not ")
             THEN task.priority # Trim(ReplaceFirst(low, "priority is not ", ""))
        ELSE DefaultAtomValue

\* the closure parseConfig pushes for one filter line, applied to a task:
\* orParts.some(orPart => orPart.split(/\s+AND\s+/).every(evaluateAtom))
FilterLine(orParts, task, countdowns, now) ==
    \E i \in 1..Len(orParts) :
        LET andParts == SplitWord(orParts[i], "AND")
        IN  \A j \in 1..Len(andParts) : evaluateAtom(andParts[j], task, countdowns, now)

NoLimit == [set |-> FALSE, val |-> 0]

EmptyConfig == [filters |-> <<>>, limit |-> NoLimit, groupBy |-> "", sortBy |-> ""]

\* the "limit" branch of parseConfig
LimitOf(lowLine, old) ==
    LET num == ParseInt(Trim(ReplaceFirst(lowLine, "limit", "")))
    IN  IF ~num.nan THEN [set |-> TRUE, val |-> num.val] ELSE old

\* a split on AND where the split on OR belongs
OrPartsOf_AndFirst(line) == SplitWord(line, "AND")

\* the split of one filter line into its OR parts
OrPartsOf(line) == SplitWord(line, "OR")

\* one iteration of the loop of parseConfig
ConfigStep(config, line) ==
    LET lowLine == ToLowerCase(line)
    IN  IF StartsWith(lowLine, "limit")
        THEN [config EXCEPT !.limit = LimitOf(lowLine, config.limit)]
        ELSE IF StartsWith(lowLine, "group by")
        THEN [config EXCEPT !.groupBy = Trim(ReplaceFirst(lowLine, "group by", ""))]
        ELSE IF StartsWith(lowLine, "sort by")
        THEN [config EXCEPT !.sortBy = Trim(ReplaceFirst(lowLine, "sort by", ""))]
        ELSE [config EXCEPT !.filters = Append(@, OrPartsOf(line))]

RECURSIVE ConfigFold(_, _)
ConfigFold(config, lines) ==
    IF lines = <<>> THEN config
    ELSE ConfigFold(ConfigStep(config, Head(lines)), Tail(lines))

RECURSIVE TrimAll(_)
TrimAll(lines) == IF lines = <<>> THEN <<>> ELSE <<Trim(Head(lines))>> \o TrimAll(Tail(lines))

\* source.split('\n').map(l => l.trim()).filter(l => l.length > 0)
SourceLines(source) == SelectSeq(TrimAll(SplitOn(source, "\n")), LAMBDA l : l # "")

\* FastTodosRenderer.parseConfig
parseConfig(source) == ConfigFold(EmptyConfig, SourceLines(source))

\* tasks.filter(t => config.filters.every(filter => filter(t)))
PassesFilters(config, task, countdowns, now) ==
    \A i \in 1..Len(config.filters) : FilterLine(config.filters[i], task, countdowns, now)

\* weight[p] || 2
Weight(p) == CASE p = "high" -> 3 [] p = "normal" -> 2 [] p = "low" -> 1 [] OTHER -> 2

\* the comparator with its operands exchanged
PriorityCompare_Ascending(a, b) == Weight(a.priority) - Weight(b.priority)

\* the comparator of render
PriorityCompare(a, b) == Weight(b.priority) - Weight(a.priority)

Compare(a, b, sortBy) ==
    IF sortBy = "priority" THEN PriorityCompare(a, b)
    ELSE IF sortBy = "path" THEN LocaleCompare(a.path, b.path)
    ELSE IF sortBy = "description" \/ sortBy = "alphabet" THEN LocaleCompare(a.cleanText, b.cleanText)
    ELSE IF sortBy = "date" THEN LocaleCompare(a.completedDate, b.completedDate)
    ELSE 0

\* Array.prototype.sort is stable: x goes before the first element that the
\* comparator puts after it
InsertSorted(sorted, x, sortBy) ==
    LET later == {i \in 1..Len(sorted) : Compare(sorted[i], x, sortBy) > 0}
        at    == IF later = {} THEN Len(sorted) + 1
                 ELSE CHOOSE i \in later : \A m \in later : i <= m
    IN  SubSeq(sorted, 1, at - 1) \o <<x>> \o SubSeq(sorted, at, Len(sorted))

RECURSIVE SortFold(_, _, _)
SortFold(sorted, rest, sortBy) ==
    IF rest = <<>> THEN sorted
    ELSE SortFold(InsertSorted(sorted, Head(rest), sortBy), Tail(rest), sortBy)

\* if (config.sortBy) filteredTasks.sort(...)
SortTasks(tasks, sortBy) == IF sortBy = "" THEN tasks ELSE SortFold(<<>>, tasks, sortBy)

\* Array.prototype.slice(0, end)
SliceEnd(len, end) ==
    IF end < 0 THEN (IF len + end < 0 THEN 0 ELSE len + end)
    ELSE (IF end > len THEN len ELSE end)

\* if (config.limit !== undefined) filteredTasks = filteredTasks.slice(0, config.limit)
LimitTasks(tasks, limit) ==
    IF limit.set THEN SubSeq(tasks, 1, SliceEnd(Len(tasks), limit.val)) ELSE tasks

\* the key groupTasks gives a task
GroupKey(task, groupBy) ==
    LET segs == SplitOn(task.path, "/")
        last == segs[Len(segs)]
        k1   == IF last = "" THEN task.path ELSE last
        k2   == IF groupBy = "path" THEN task.path ELSE k1
    IN  IF EndsWith(k2, ".md") THEN SubSeq(k2, 1, Len(k2) - 3) ELSE k2

\* property names every object inherits: groups[key] is truthy for them
\* without any insertion, and has no push method
InheritedKeys == {"constructor", "toString", "valueOf", "hasOwnProperty",
                  "isPrototypeOf", "propertyIsEnumerable", "toLocaleString", "__proto__"}

\* the loop of groupTasks: the own properties of `groups` in insertion order
RECURSIVE GroupFold(_, _, _)
GroupFold(groups, tasks, groupBy) ==
    IF tasks = <<>> THEN groups
    ELSE LET key == GroupKey(Head(tasks), groupBy)
             at  == {i \in 1..Len(groups) : groups[i].key = key}
         IN  IF at = {}
             THEN GroupFold(Append(groups, [key |-> key, tasks |-> <<Head(tasks)>>]),
                            Tail(tasks), groupBy)
             ELSE LET i == CHOOSE j \in at : TRUE
                  IN  GroupFold([groups EXCEPT ![i].tasks = Append(@, Head(tasks))],
                                Tail(tasks), groupBy)

\* a canonical array index: property order puts these keys first (keys of
\* at most 9 digits; longer digit strings are not modelled)
IsIndexKey(key) ==
    /\ key # "" /\ Len(key) <= 9
    /\ \A i \in 1..Len(key) : IsDigit(Ch(key, i))
    /\ (Len(key) = 1 \/ Head(key) # "0")

\* ascending numeric order of the index keys
RECURSIVE InsertIndexKey(_, _)
InsertIndexKey(sorted, g) ==
    IF sorted = <<>> THEN <<g>>
    ELSE IF DigitsValue(g.key, 0) < DigitsValue(Head(sorted).key, 0) THEN <<g>> \o sorted
    ELSE <<Head(sorted)>> \o InsertIndexKey(Tail(sorted), g)

RECURSIVE SortIndexKeys(_)
SortIndexKeys(groups) ==
    IF groups = <<>> THEN <<>>
    ELSE InsertIndexKey(SortIndexKeys(Tail(groups)), Head(groups))

\* Object.entries(groups): index keys in ascending numeric order, then the
\* other keys in insertion order
ObjectEntries(groups) ==
    SortIndexKeys(SelectSeq(groups, LAMBDA g : IsIndexKey(g.key)))
        \o SelectSeq(groups, LAMBDA g : ~IsIndexKey(g.key))

\* groupTasks throws (TypeError: groups[key].push is not a function) when a
\* key is an inherited property name
GroupThrows(tasks, groupBy) ==
    \E i \in 1..Len(tasks) : GroupKey(tasks[i], groupBy) \in InheritedKeys

\* FastTodosRenderer.groupTasks followed by Object.entries in render
groupTasks(tasks, groupBy) == ObjectEntries(GroupFold(<<>>, tasks, groupBy))

\* render from the fetched tasks to the limited sequence
FilterTasks(tasks, config, countdowns, now) ==
    SelectSeq(tasks, LAMBDA t : PassesFilters(config, t, countdowns, now))

\* the stages of render, each handing its result to the next
RenderGroups(config, filtered, sorted, limited, threw) ==
    [done     |-> TRUE,
     config   |-> config,
     filtered |-> filtered,
     sorted   |-> sorted,
     limited  |-> limited,
     threw    |-> threw,
     groups   |-> IF threw THEN <<>> ELSE groupTasks(limited, config.groupBy)]

RenderLimit(config, filtered, sorted, limited) ==
    RenderGroups(config, filtered, sorted, limited, GroupThrows(limited, config.groupBy))

RenderSort(config, filtered, sorted) ==
    RenderLimit(config, filtered, sorted, LimitTasks(sorted, config.limit))

RenderFilter(config, filtered) ==
    RenderSort(config, filtered, SortTasks(filtered, config.sortBy))

RenderConfig(tasks, config, countdowns, now) ==
    RenderFilter(config, FilterTasks(tasks, config, countdowns, now))

Pipeline(tasks, source, countdowns, now) ==
    RenderConfig(tasks, parseConfig(source), countdowns, now)

(***************************************************************************)
(* Bounds and program constants                                            *)
(***************************************************************************)
\* checkbox clicks in one behaviour
MaxClicks == 3

\* let count = 5 in startCountdown
CountStart == 5
\* setInterval(..., 1000) in startCountdown
IntervalMs == 1000
\* now - lastScanTime < 10000 in getTasks
CacheTtlMs == 10000
\* Date.now() - lastInternalUpdate < 3000 ? 1000 : 500 in the 'changed' handler
InternalWindowMs == 3000
SettleOwnMs == 1000
SettleMs == 500

\* time is counted in quanta of 500 ms; a delay lasts the quanta it overlaps
Quanta(ms) == (ms + 499) \div 500

TickQ == Quanta(IntervalMs)
TtlQ == Quanta(CacheTtlMs)
WindowQ == Quanta(InternalWindowMs)
GraceQ == CountStart * TickQ

Day1 == "2026-11-01"

Views == {"v1"}

(***************************************************************************)
(* State                                                                   *)
(***************************************************************************)
VARIABLES
    docs,             \* the vault: a sequence of [path, lines], in getMarkdownFiles order
    editorOpen,       \* paths shown in a MarkdownView (safeModifyLine writes through the editor)
    today,            \* moment().format('YYYY-MM-DD')
    heap,             \* the FastTask objects that are still referenced
    taskCache,        \* FastTodosRenderer.taskCache: references into heap
    scanAge,          \* quanta since lastScanTime, TtlQ when lastScanTime = 0 or older
    internalAge,      \* quanta since plugin.lastInternalUpdate, at most WindowQ
    changed,          \* a metadataCache 'changed' notification is due
    loaded,           \* per view: onload has run
    source,           \* per view: the text of the todos block
    lastRenderedHash, \* per view
    refreshTimer,     \* per view: [on, rem, forced]
    activeCountdowns, \* per view: set of task ids
    items,            \* per view: the rendered .fast-todos-item elements
    display,          \* per view: what the container shows
    intervals,        \* per view: the live setInterval closures of startCountdown
    scans,            \* getTasks calls suspended at cachedRead
    toggles,          \* toggleTask calls suspended at vault.read / vault.process
    clicks,           \* history: number of checkbox clicks so far
    grace,            \* history, per view: for each counting task, quanta since the
                      \* check-click that started the countdown and the line before it
    expired,          \* history, per view: what the last expiry found
    lastRender,       \* history, per view: what the last completed render did
    qSource, qIntent, qTasks, qCountdowns, qOut,  \* the query interpreter on its own
    rtLine, rtOut,    \* the task parser on its own: a line, and its parse, the line
                      \* rebuilt from the parse, and the parse of that
    cScans,           \* getTasks calls of any render, suspended at cachedRead
    cCalls,           \* history, per caller: what its last getTasks call returned
    cFlags,           \* history: how the scan that filled taskCache relates to the
                      \* last clearCache and the last write-back
    cWindow,          \* history: full scans begun and results returned since the
                      \* last clearCache or expiry of the cache
    cCount,           \* history: calls, invalidations and write-backs so far
    wTimers,          \* the pending timeouts of the editor-change watcher
    completionTimer,  \* plugin.completionTimer: the handle of the last timeout, 0 for null
    wActive,          \* workspace.getActiveFile(): a path, "" for null
    wSince,           \* history: change events since the last watcher scan, and
                      \* quanta since the last change event
    wLast,            \* history: what the last watcher scan found and did
    wCount,           \* history: change events and switches of the active file so far
    edits,            \* updateTask / handleTaskUpdate calls suspended at vault.read or
                      \* vault.process
    eLast,            \* history: what the last edit saved in the modal led to
    eCount            \* history: number of edits saved in the modal so far

vars == <<docs, editorOpen, today, heap, taskCache, scanAge, internalAge, changed,
          loaded, source, lastRenderedHash, refreshTimer, activeCountdowns, items,
          display, intervals, scans, toggles, clicks, grace, expired, lastRender,
          qSource, qIntent, qTasks, qCountdowns, qOut, rtLine, rtOut,
          cScans, cCalls, cFlags, cWindow, cCount,
          wTimers, completionTimer, wActive, wSince, wLast, wCount,
          edits, eLast, eCount>>

viewVars == <<docs, editorOpen, today, heap, taskCache, scanAge, internalAge, changed,
              loaded, source, lastRenderedHash, refreshTimer, activeCountdowns, items,
              display, intervals, scans, toggles, clicks, grace, expired, lastRender>>

queryVars == <<qSource, qIntent, qTasks, qCountdowns, qOut, rtLine, rtOut>>

cacheVars == <<cScans, cCalls, cFlags, cWindow, cCount>>

\* what the actions of the views leave alone, and what QRender leaves alone
watcherVars == <<wTimers, completionTimer, wActive, wSince, wLast, wCount>>

editVars == <<edits, eLast, eCount>>

offViewVars == <<queryVars, cacheVars, watcherVars, editVars>>

offQueryVars == <<viewVars, cacheVars, watcherVars, editVars>>

(***************************************************************************)
(* Documents and the full scan                                             *)
(***************************************************************************)
RemoveAt(seq, k) == SubSeq(seq, 1, k - 1) \o SubSeq(seq, k + 1, Len(seq))

MinOf(S) == CHOOSE x \in S : \A y \in S : x <= y

\* the index of the file at path, 0 when the vault has none
FileIndex(path) ==
    IF \E i \in DOMAIN docs : docs[i].path = path
    THEN CHOOSE i \in DOMAIN docs : docs[i].path = path
    ELSE 0

\* the text at a task address, "" when the document has no such line
DocLine(id) ==
    LET f == FileIndex(id[1])
    IN  IF f # 0 /\ id[2] + 1 <= Len(docs[f].lines) THEN docs[f].lines[id[2] + 1] ELSE ""

\* the lines of the document at path
DocText(path) == IF FileIndex(path) # 0 THEN docs[FileIndex(path)].lines ELSE <<>>

\* length of the "-", "*", "+" or "1." / "1)" list marker at the start of t
ListMarkerLen(t) ==
    IF Ch(t, 1) \in {"-", "*", "+"} THEN 1
    ELSE LET n == IF \A i \in 1..Len(t) : IsDigit(Ch(t, i)) THEN Len(t)
                  ELSE (CHOOSE i \in 1..Len(t) :
                          ~IsDigit(Ch(t, i)) /\ \A j \in 1..(i - 1) : IsDigit(Ch(t, j))) - 1
         IN  IF n >= 1 /\ Ch(t, n + 1) \in {".", ")"} THEN n + 1 ELSE 0

\* item.task of the host's structural index (metadataCache listItems): the
\* status character of a list item that carries a checkbox, "" for any
\* other line.  The index is taken to be current with the text.
ListItemTask(line) ==
    LET t == From(line, LeadWs(line) + 1)
        m == ListMarkerLen(t)
        u == From(t, m + 1)
        w == LeadWs(u)
        c == From(u, w + 1)
    IN  IF /\ m # 0 /\ w >= 1 /\ Len(c) >= 3
           /\ Ch(c, 1) = "[" /\ Ch(c, 3) = "]"
           /\ (Len(c) = 3 \/ IsWs(Ch(c, 4)))
        THEN Ch(c, 2) ELSE ""

\* lineText.match(/\[([ xX])\]/): group 1 of the first match, "" for none
StatusMatch(line) ==
    LET hits == {k \in 1..(Len(line) - 2) : IsCheckbox(SubSeq(line, k, k + 2))}
    IN  IF hits = {} THEN "" ELSE Ch(line, MinOf(hits) + 1)

\* isCompleted as getTasks computes it for one list item
IsCompletedOf(line) ==
    IF StatusMatch(line) # "" THEN ToLowerCase(StatusMatch(line)) = "x"
    ELSE ListItemTask(line) \in {"x", "X"}

\* the inner loop of getTasks over the list items of one file
RECURSIVE ScanLines(_, _, _)
ScanLines(path, lines, i) ==
    IF i > Len(lines) THEN <<>>
    ELSE (IF ListItemTask(lines[i]) # "" /\ lines[i] # ""
          THEN <<parseTaskLine(lines[i], i - 1, path, IsCompletedOf(lines[i]))>>
          ELSE <<>>) \o ScanLines(path, lines, i + 1)

ScanFileTasks(file) == ScanLines(file.path, file.lines, 1)

HasListItems(file) == \E i \in DOMAIN file.lines : ListItemTask(file.lines[i]) # ""

\* the next file after index i that getTasks reads (files without list
\* items are skipped without a read), 0 when the loop ends
NextListFile(i) ==
    LET later == {j \in DOMAIN docs : j > i /\ HasListItems(docs[j])}
    IN  IF later = {} THEN 0 ELSE MinOf(later)

(***************************************************************************)
(* Task objects: references, and dropping the unreferenced ones            *)
(***************************************************************************)
WithObj(r, o) ==
    [text |-> r.text, cleanText |-> r.cleanText, completed |-> r.completed,
     line |-> r.line, path |-> r.path, completedDate |-> r.completedDate,
     priority |-> r.priority, obj |-> o]

\* the array getTasks returns: the objects of the cache
Fetched(h, tc) == [i \in 1..Len(tc) |-> WithObj(h[tc[i]], tc[i])]

LiveObjs(tc, its, tg) ==
    {tc[i] : i \in DOMAIN tc}
        \cup UNION {{its[v][i].obj : i \in DOMAIN its[v]} : v \in Views}
        \cup {tg[i].obj : i \in DOMAIN tg}

Renum(live, o) == Cardinality({j \in live : j <= o})

\* the next heap, cache, items and suspended toggles, with the objects that
\* nothing references any more dropped and the rest renumbered in order
SetRefs(h, tc, its, tg) ==
    LET live == LiveObjs(tc, its, tg)
    IN  /\ heap' = [k \in 1..Cardinality(live) |->
                        h[CHOOSE o \in live : Renum(live, o) = k]]
        /\ taskCache' = [i \in DOMAIN tc |-> Renum(live, tc[i])]
        /\ items' = [v \in Views |->
                        [i \in DOMAIN its[v] |-> [its[v][i] EXCEPT !.obj = Renum(live, @)]]]
        /\ toggles' = [i \in DOMAIN tg |-> [tg[i] EXCEPT !.obj = Renum(live, @)]]

(***************************************************************************)
(* render                                                                  *)
(***************************************************************************)
\* lastRenderedHash = ""
NoHash == <<"">>

\* JSON.stringify(filteredTasks.map(t => ({p, l, c, t, pr})))
HashOf(limited) ==
    <<"json", [i \in 1..Len(limited) |->
                  [p |-> limited[i].path, l |-> limited[i].line, c |-> limited[i].completed,
                   t |-> limited[i].cleanText, pr |-> limited[i].priority]]>>

RECURSIVE Flatten(_)
Flatten(groups) ==
    IF groups = <<>> THEN <<>> ELSE Head(groups).tasks \o Flatten(Tail(groups))

\* renderTask for every task of every group: the checkbox shows task.completed
ItemsOf(groups) ==
    LET ts == Flatten(groups)
    IN  [i \in 1..Len(ts) |-> [id |-> TaskId(ts[i]), obj |-> ts[i].obj,
                               checked |-> ts[i].completed]]

NoRender == [has |-> FALSE, rescan |-> FALSE, counting |-> {}, kept |-> {}, provisional |-> {},
             result |-> <<>>, same |-> FALSE, reset |-> FALSE, mutated |-> FALSE,
             threw |-> "", quiet |-> FALSE, agrees |-> TRUE]

\* the records of a result, without the identity of the objects
ByValue(limited) == [i \in 1..Len(limited) |-> [limited[i] EXCEPT !.obj = 0]]

\* what a finished render leaves in the history: of the fetched tasks, the
\* ones with an active countdown, those of them the result kept, and those
\* of them whose record is completed; the result, whether it is the result
\* of the render before, whether lastRenderedHash had been reset, and
\* whether the container was emptied and rebuilt
RenderRecord(tasks, limited, cds, rescan, prev, last, skip) ==
    [has         |-> TRUE,
     rescan      |-> rescan,
     counting    |-> {TaskId(tasks[i]) : i \in {j \in DOMAIN tasks : TaskId(tasks[j]) \in cds}},
     kept        |-> {TaskId(limited[i]) : i \in {j \in DOMAIN limited : TaskId(limited[j]) \in cds}},
     provisional |-> {TaskId(tasks[i]) :
                        i \in {j \in DOMAIN tasks : TaskId(tasks[j]) \in cds /\ tasks[j].completed}},
     result      |-> ByValue(limited),
     same        |-> prev.has /\ prev.result = ByValue(limited),
     reset       |-> last = NoHash,
     mutated     |-> ~skip,
     threw       |-> "",
     quiet       |-> cds = {},
     agrees      |-> TRUE]

\* if (currentHash === this.lastRenderedHash) return;
SkipRender_Never(cur, last) == FALSE

SkipRender(cur, last) == cur = last

\* the item elements of a view when its render returns
ItemsAfter(v, skip, P) ==
    IF skip THEN items[v]
    ELSE IF P.limited = <<>> \/ P.threw THEN <<>> ELSE ItemsOf(P.groups)

\* every item shows the completed value of its task's record in the result
Agrees(its, limited) ==
    \A k \in DOMAIN its : \A i \in DOMAIN limited :
        TaskId(limited[i]) = its[k].id => its[k].checked = limited[i].completed

\* render from the return of getTasks on: filter, sort, limit, the hash
\* guard and the rebuild of the container
RenderDom(v, h, tc, age, hashes, cds, sc, tg, rescan, tasks, P, cur) ==
    LET skip == SkipRender(cur, hashes[v])
    IN  /\ SetRefs(h, tc, [items EXCEPT ![v] = ItemsAfter(v, skip, P)], tg)
        /\ scanAge' = age
        /\ lastRenderedHash' = [hashes EXCEPT ![v] = cur]
        /\ display' = IF skip THEN display
                      ELSE [display EXCEPT ![v] =
                              IF P.limited = <<>> THEN "empty"
                              ELSE IF P.threw THEN "error" ELSE "list"]
        /\ scans' = sc
        /\ lastRender' = [lastRender EXCEPT ![v] =
                             [RenderRecord(tasks, P.limited, cds[v], rescan,
                                           lastRender[v], hashes[v], skip)
                                 EXCEPT !.threw = IF ~skip /\ P.limited # <<>> /\ P.threw
                                                  THEN "output" ELSE "",
                                        !.agrees = Agrees(ItemsAfter(v, skip, P), P.limited)]]

RenderHash(v, h, tc, age, hashes, cds, sc, tg, rescan, tasks, P) ==
    RenderDom(v, h, tc, age, hashes, cds, sc, tg, rescan, tasks, P, HashOf(P.limited))

RenderFetched(v, h, tc, age, hashes, cds, sc, tg, rescan, tasks) ==
    RenderHash(v, h, tc, age, hashes, cds, sc, tg, rescan, tasks,
               Pipeline(tasks, source[v], cds[v], today))

FinishRender(v, h, tc, age, hashes, cds, sc, tg, rescan) ==
    RenderFetched(v, h, tc, age, hashes, cds, sc, tg, rescan, Fetched(h, tc))

\* render up to the first suspension of getTasks.  h, tc, age, hashes, cds,
\* sc and tg are the values the caller leaves behind.
Render(v, h, tc, age, hashes, cds, sc, tg) ==
    IF Len(tc) > 0 /\ age < TtlQ
    THEN FinishRender(v, h, tc, age, hashes, cds, sc, tg, FALSE)
    ELSE IF NextListFile(0) = 0
    THEN FinishRender(v, h, <<>>, 0, hashes, cds, sc, tg, TRUE)
    ELSE /\ SetRefs(h, tc, items, tg)
         /\ scanAge' = age
         /\ lastRenderedHash' = hashes
         /\ scans' = Append(sc, [view |-> v, idx |-> NextListFile(0), acc |-> <<>>])
         /\ UNCHANGED <<display, lastRender>>

(***************************************************************************)
(* Write-back                                                              *)
(***************************************************************************)
\* prefix.replace(/\[.\]/, box): the first "[" any-character "]"
SetCheckbox(prefix, box) ==
    LET hits == {k \in 1..(Len(prefix) - 2) : Ch(prefix, k) = "[" /\ Ch(prefix, k + 2) = "]"}
    IN  IF hits = {} THEN prefix
        ELSE SubSeq(prefix, 1, MinOf(hits) - 1) \o box \o From(prefix, MinOf(hits) + 3)

CompletedTag(now) == " [completed: " \o now \o "]"

\* the line toggleTask hands to safeModifyLine, for a line that matches
ToggleLine(line, completed, now) ==
    LET k            == TaskPrefixWsLen(line)
        basePrefix   == SetCheckbox(SubSeq(line, 1, k), IF completed THEN "[x]" ELSE "[ ]")
        cleanContent == Trim(StripCompletion(From(line, k + 1)))
        finalLine    == basePrefix \o cleanContent
                            \o (IF completed THEN CompletedTag(now) ELSE "")
    IN  TrimEnd(finalLine)

\* toggleTask returns before any write: stale line number, empty line, or a
\* line that does not match the checkbox pattern
ToggleAborts(lines, lineNum) ==
    \/ lineNum >= Len(lines)
    \/ lines[lineNum + 1] = ""
    \/ TaskPrefixWsLen(lines[lineNum + 1]) = 0

\* lines[lineNum] = newLine; lines.join('\n') : an index past the end
\* leaves holes, which join as empty lines
SetLine(lines, lineNum, newLine) ==
    [i \in 1..(IF lineNum + 1 > Len(lines) THEN lineNum + 1 ELSE Len(lines)) |->
        IF i = lineNum + 1 THEN newLine
        ELSE IF i <= Len(lines) THEN lines[i] ELSE ""]

WriteLine(path, lineNum, newLine) ==
    [docs EXCEPT ![FileIndex(path)].lines = SetLine(@, lineNum, newLine)]

(***************************************************************************)
(* Initial states                                                          *)
(***************************************************************************)
\* the vault, the open editor and the query of the block at start
Scenarios ==
    { [docs   |-> << [path |-> "Today/x.md", lines |-> <<"# plan", "- [ ] a">>] >>,
       editor |-> {},
       source |-> "not done"],
      [docs   |-> << [path |-> "Today/x.md", lines |-> <<"- [ ] a [completed: 2026-10-31]">>] >>,
       editor |-> {"Today/x.md"},
       source |-> "not done"],
      [docs   |-> << [path |-> "Today/x.md", lines |-> <<"- [x] b [completed: 2026-10-31]">>] >>,
       editor |-> {},
       source |-> "done"] }

NoTimer == [on |-> FALSE, rem |-> 0, forced |-> FALSE]

NoExpiry == [n |-> 0, age |-> 0, id |-> <<"", 0>>, line |-> "", day |-> "", cleared |-> FALSE]

NoGrace == << >>

\* the renders whose getTasks calls the cache model follows
Callers == {"r1", "r2"}

NoCall == [state |-> "none", hit |-> FALSE, pre |-> FALSE, old |-> FALSE, records |-> <<>>]

NoWindow == [scans |-> 0, results |-> {}]

CacheIdle ==
    /\ cScans = <<>>
    /\ cCalls = [c \in Callers |-> NoCall]
    /\ cFlags = [pre |-> FALSE, old |-> FALSE]
    /\ cWindow = NoWindow
    /\ cCount = [calls |-> 0, clears |-> 0, writes |-> 0, edits |-> 0]

DebounceMs == 500

NoScan == [has |-> FALSE, path |-> "", active |-> "", before |-> <<>>, after |-> <<>>,
           events |-> <<>>, gap |-> 0, since |-> 0, shown |-> TRUE, cancelled |-> {},
           own |-> FALSE]

WatcherIdle ==
    /\ wTimers = <<>>
    /\ completionTimer = 0
    /\ wActive = ""
    /\ wSince = [events |-> 0, age |-> Quanta(DebounceMs)]
    /\ wLast = NoScan
    /\ wCount = [events |-> 0, switches |-> 0]

NoEdit == [has |-> FALSE, entry |-> "", wrote |-> FALSE, broadcast |-> FALSE, stale |-> FALSE,
           completed |-> FALSE, line |-> ""]

EditIdle ==
    /\ edits = <<>>
    /\ eLast = NoEdit
    /\ eCount = 0

QueryIdle ==
    /\ qSource = ""
    /\ qIntent = <<>>
    /\ qTasks = <<>>
    /\ qCountdowns = {}
    /\ qOut = [done |-> FALSE]
    /\ rtLine = ""
    /\ rtOut = [done |-> FALSE]

\* nothing rendered, scanned or scheduled yet
ViewRest ==
    /\ today = Day1
    /\ heap = <<>>
    /\ taskCache = <<>>
    /\ scanAge = TtlQ
    /\ internalAge = WindowQ
    /\ changed = FALSE
    /\ loaded = [v \in Views |-> FALSE]
    /\ lastRenderedHash = [v \in Views |-> NoHash]
    /\ refreshTimer = [v \in Views |-> NoTimer]
    /\ activeCountdowns = [v \in Views |-> {}]
    /\ items = [v \in Views |-> <<>>]
    /\ display = [v \in Views |-> "blank"]
    /\ intervals = [v \in Views |-> <<>>]
    /\ scans = <<>>
    /\ toggles = <<>>
    /\ clicks = 0
    /\ grace = [v \in Views |-> NoGrace]
    /\ expired = [v \in Views |-> NoExpiry]
    /\ lastRender = [v \in Views |-> NoRender]

ViewInit ==
    /\ \E sc \in Scenarios :
          /\ docs = sc.docs
          /\ editorOpen = sc.editor
          /\ source = [v \in Views |-> sc.source]
    /\ ViewRest

Init == ViewInit /\ QueryIdle /\ CacheIdle /\ WatcherIdle /\ EditIdle

(***************************************************************************)
(* Operations of a view                                                    *)
(***************************************************************************)
\* FastTodosRenderer.clearCache leaves taskCache = [] and lastScanTime = 0

\* FastTodosRenderer.onload: render(), then the three subscriptions
Onload(v) ==
    /\ ~loaded[v]
    /\ loaded' = [loaded EXCEPT ![v] = TRUE]
    /\ Render(v, heap, taskCache, scanAge, lastRenderedHash, activeCountdowns, scans, toggles)
    /\ UNCHANGED <<docs, editorOpen, today, internalAge, changed, source, refreshTimer,
                   activeCountdowns, intervals, clicks, grace, expired>>
    /\ UNCHANGED offViewVars

\* a cachedRead of getTasks resolves: the lines of that file are parsed, and
\* after the last file the cache is replaced and render goes on
ScanResume(k) ==
    /\ k \in DOMAIN scans
    /\ LET sc   == scans[k]
           acc  == sc.acc \o ScanFileTasks(docs[sc.idx])
           nxt  == NextListFile(sc.idx)
           fresh == [i \in 1..Len(acc) |-> Len(heap) + i]
       IN  IF nxt # 0
           THEN /\ scans' = [scans EXCEPT ![k] = [view |-> sc.view, idx |-> nxt, acc |-> acc]]
                /\ UNCHANGED <<heap, taskCache, items, toggles, scanAge, lastRenderedHash,
                               display, lastRender>>
           ELSE FinishRender(sc.view, heap \o acc, fresh, 0, lastRenderedHash,
                             activeCountdowns, RemoveAt(scans, k), toggles, TRUE)
    /\ UNCHANGED <<docs, editorOpen, today, internalAge, changed, loaded, source, refreshTimer,
                   activeCountdowns, intervals, clicks, grace, expired>>
    /\ UNCHANGED offViewVars

\* the ids a grace history keeps, as a set
GraceIds(g) == {g[i].id : i \in DOMAIN g}

GraceDrop(g, id) == SelectSeq(g, LAMBDA e : e.id # id)

\* checkbox.onclick of renderTask, up to the read of toggleTask
Click(v, k) ==
    /\ loaded[v]
    /\ k \in DOMAIN items[v]
    /\ clicks < MaxClicks
    /\ LET it       == items[v][k]
           id       == it.id
           newState == ~heap[it.obj].completed
           starts   == newState /\ id \notin activeCountdowns[v]
           h1       == [heap EXCEPT ![it.obj].completed = newState]
           cachedAt == {i \in DOMAIN taskCache : TaskId(h1[taskCache[i]]) = id}
           h2       == IF cachedAt = {} THEN h1
                       ELSE [h1 EXCEPT ![taskCache[MinOf(cachedAt)]].completed = newState]
       IN  /\ heap' = h2
           /\ activeCountdowns' =
                 [activeCountdowns EXCEPT ![v] = IF newState THEN @ \cup {id} ELSE @ \ {id}]
           /\ intervals' =
                 IF starts
                 THEN [intervals EXCEPT ![v] = Append(@, [id |-> id, count |-> CountStart, rem |-> TickQ])]
                 ELSE intervals
           \* the checkbox toggles by itself; applyVisualDone then sets it,
           \* except when startCountdown returns at once
           /\ items' = [items EXCEPT ![v][k].checked =
                           IF ~newState THEN FALSE ELSE IF starts THEN TRUE ELSE ~it.checked]
           /\ toggles' = Append(toggles, [view |-> v, obj |-> it.obj, stage |-> "read", newLine |-> ""])
           /\ grace' =
                 IF starts
                 THEN [grace EXCEPT ![v] = Append(@, [id |-> id, age |-> 0, before |-> DocText(id[1])])]
                 ELSE IF ~newState THEN [grace EXCEPT ![v] = GraceDrop(@, id)]
                 ELSE grace
    /\ clicks' = clicks + 1
    /\ UNCHANGED <<docs, editorOpen, today, taskCache, scanAge, internalAge, changed, loaded,
                   source, lastRenderedHash, refreshTimer, display, scans, expired, lastRender>>
    /\ UNCHANGED offViewVars

\* toggleTask after vault.read resolves, through safeModifyLine: the write
\* goes through the editor at once when the file is open in one, else it is
\* handed to vault.process
ToggleResume(k) ==
    /\ k \in DOMAIN toggles
    /\ toggles[k].stage = "read"
    /\ LET task  == heap[toggles[k].obj]
           f     == FileIndex(task.path)
           lines == docs[f].lines
       IN  IF ToggleAborts(lines, task.line)
           THEN /\ SetRefs(heap, taskCache, items, RemoveAt(toggles, k))
                /\ UNCHANGED <<docs, internalAge, changed>>
           ELSE LET newLine == ToggleLine(lines[task.line + 1], task.completed, today)
                IN  /\ internalAge' = 0
                    /\ IF task.path \in editorOpen
                       THEN /\ docs' = WriteLine(task.path, task.line, newLine)
                            /\ changed' = TRUE
                            /\ SetRefs(heap, taskCache, items, RemoveAt(toggles, k))
                       ELSE /\ toggles' = [toggles EXCEPT ![k].stage = "process",
                                                          ![k].newLine = newLine]
                            /\ UNCHANGED <<docs, changed, heap, taskCache, items>>
    /\ UNCHANGED <<editorOpen, today, scanAge, loaded, source, lastRenderedHash, refreshTimer,
                   activeCountdowns, display, intervals, scans, clicks, grace, expired,
                   lastRender>>
    /\ UNCHANGED offViewVars

\* the callback of vault.process in safeModifyLine
ProcessResume(k) ==
    /\ k \in DOMAIN toggles
    /\ toggles[k].stage = "process"
    /\ LET task == heap[toggles[k].obj]
       IN  docs' = WriteLine(task.path, task.line, toggles[k].newLine)
    /\ changed' = TRUE
    /\ SetRefs(heap, taskCache, items, RemoveAt(toggles, k))
    /\ UNCHANGED <<editorOpen, today, scanAge, internalAge, loaded, source, lastRenderedHash,
                   refreshTimer, activeCountdowns, display, intervals, scans, clicks, grace,
                   expired, lastRender>>
    /\ UNCHANGED offViewVars

\* the metadataCache 'changed' handler of every loaded view
SettleDelay == IF internalAge < WindowQ THEN SettleOwnMs ELSE SettleMs

MetadataChanged ==
    /\ changed
    /\ changed' = FALSE
    /\ refreshTimer' =
          [v \in Views |->
              IF loaded[v] /\ activeCountdowns[v] = {}
              THEN [on |-> TRUE, rem |-> Quanta(SettleDelay), forced |-> FALSE]
              ELSE refreshTimer[v]]
    /\ UNCHANGED <<docs, editorOpen, today, heap, taskCache, scanAge, internalAge, loaded,
                   source, lastRenderedHash, activeCountdowns, items, display, intervals,
                   scans, toggles, clicks, grace, expired, lastRender>>
    /\ UNCHANGED offViewVars

\* the callback of refreshTimer: clearCache, (refresh-all: forget the hash), render
RefreshFire(v) ==
    /\ refreshTimer[v].on
    /\ refreshTimer[v].rem = 0
    /\ refreshTimer' = [refreshTimer EXCEPT ![v] = NoTimer]
    /\ Render(v, heap, <<>>, TtlQ,
              IF refreshTimer[v].forced THEN [lastRenderedHash EXCEPT ![v] = NoHash]
              ELSE lastRenderedHash,
              activeCountdowns, scans, toggles)
    /\ UNCHANGED <<docs, editorOpen, today, internalAge, changed, loaded, source,
                   activeCountdowns, intervals, clicks, grace, expired>>
    /\ UNCHANGED offViewVars

GraceAge(g, id) ==
    IF id \in GraceIds(g) THEN (CHOOSE e \in {g[i] : i \in DOMAIN g} : e.id = id).age ELSE 0

\* one run of the setInterval callback of startCountdown
IntervalFire(v, k) ==
    /\ k \in DOMAIN intervals[v]
    /\ intervals[v][k].rem = 0
    /\ LET iv == intervals[v][k]
       IN  IF iv.id \notin activeCountdowns[v]
           THEN \* clearInterval
                /\ intervals' = [intervals EXCEPT ![v] = RemoveAt(@, k)]
                /\ UNCHANGED <<heap, taskCache, scanAge, lastRenderedHash, activeCountdowns,
                               items, display, scans, toggles, grace, expired, lastRender>>
           ELSE IF iv.count - 1 > 0
           THEN /\ intervals' = [intervals EXCEPT ![v][k].count = iv.count - 1,
                                                  ![v][k].rem = TickQ]
                /\ UNCHANGED <<heap, taskCache, scanAge, lastRenderedHash, activeCountdowns,
                               items, display, scans, toggles, grace, expired, lastRender>>
           ELSE LET cds == [activeCountdowns EXCEPT ![v] = @ \ {iv.id}]
                IN  /\ intervals' = [intervals EXCEPT ![v] = RemoveAt(@, k)]
                    /\ activeCountdowns' = cds
                    /\ grace' = [grace EXCEPT ![v] = GraceDrop(@, iv.id)]
                    /\ expired' = [expired EXCEPT ![v] =
                                      [n |-> @.n + 1, age |-> GraceAge(grace[v], iv.id),
                                       id |-> iv.id, line |-> DocLine(iv.id),
                                       day |-> today, cleared |-> TRUE]]
                    /\ Render(v, heap, <<>>, TtlQ, [lastRenderedHash EXCEPT ![v] = NoHash],
                              cds, scans, toggles)
    /\ UNCHANGED <<docs, editorOpen, today, internalAge, changed, loaded, source,
                   refreshTimer, clicks>>
    /\ UNCHANGED offViewVars

\* nothing is due now: no timer at zero, no read, write or change
\* notification in flight (these complete within the quantum)
Quiet ==
    /\ scans = <<>>
    /\ toggles = <<>>
    /\ edits = <<>>
    /\ ~changed
    /\ \A v \in Views :
          /\ ~(refreshTimer[v].on /\ refreshTimer[v].rem = 0)
          /\ \A k \in DOMAIN intervals[v] : intervals[v][k].rem > 0
    /\ \A k \in DOMAIN wTimers : wTimers[k].rem > 0

TimerPending ==
    \/ \E v \in Views : refreshTimer[v].on \/ intervals[v] # <<>>
    \/ wTimers # <<>>

Capped(n, cap) == IF n + 1 > cap THEN cap ELSE n + 1

\* one quantum passes while a timer is pending
Advance ==
    /\ Quiet
    /\ TimerPending
    /\ scanAge' = Capped(scanAge, TtlQ)
    /\ internalAge' = Capped(internalAge, WindowQ)
    /\ refreshTimer' = [v \in Views |->
                           IF refreshTimer[v].on THEN [refreshTimer[v] EXCEPT !.rem = @ - 1]
                           ELSE refreshTimer[v]]
    /\ intervals' = [v \in Views |->
                        [k \in DOMAIN intervals[v] |-> [intervals[v][k] EXCEPT !.rem = @ - 1]]]
    /\ grace' = [v \in Views |->
                    [k \in DOMAIN grace[v] |-> [grace[v][k] EXCEPT !.age = Capped(@, GraceQ + 1)]]]
    /\ wTimers' = [k \in DOMAIN wTimers |-> [wTimers[k] EXCEPT !.rem = @ - 1]]
    /\ wSince' = [wSince EXCEPT !.age = Capped(@, Quanta(DebounceMs))]
    /\ UNCHANGED <<docs, editorOpen, today, heap, taskCache, changed, loaded, source,
                   lastRenderedHash, activeCountdowns, items, display, scans, toggles, clicks,
                   expired, lastRender>>
    /\ UNCHANGED <<queryVars, cacheVars, editVars, completionTimer, wActive, wLast, wCount>>

\* with no timer pending, a pause longer than the cache TTL and the
\* internal-update window
Idle ==
    /\ Quiet
    /\ ~TimerPending
    /\ scanAge # TtlQ \/ internalAge # WindowQ
    /\ scanAge' = TtlQ
    /\ internalAge' = WindowQ
    /\ UNCHANGED <<docs, editorOpen, today, heap, taskCache, changed, loaded, source,
                   lastRenderedHash, refreshTimer, activeCountdowns, items, display, intervals,
                   scans, toggles, clicks, grace, expired, lastRender>>
    /\ UNCHANGED offViewVars

Next ==
    \/ \E v \in Views : Onload(v)
    \/ \E k \in DOMAIN scans : ScanResume(k)
    \/ \E v \in Views : \E k \in DOMAIN items[v] : Click(v, k)
    \/ \E k \in DOMAIN toggles : ToggleResume(k)
    \/ \E k \in DOMAIN toggles : ProcessResume(k)
    \/ MetadataChanged
    \/ \E v \in Views : RefreshFire(v)
    \/ \E v \in Views : \E k \in DOMAIN intervals[v] : IntervalFire(v, k)
    \/ Advance
    \/ Idle

Spec == Init /\ [][Next]_vars

(***************************************************************************)
(* Grace period (C1 - C4)                                                  *)
(***************************************************************************)
\* number of completion tags in s
RECURSIVE CountCompletion(_)
CountCompletion(s) ==
    IF s = "" THEN 0
    ELSE LET e == CompletionTagEnd(s, 1)
         IN  IF e # 0 THEN 1 + CountCompletion(From(s, e + 1))
             ELSE CountCompletion(Tail(s))

\* a task line with a checked checkbox and exactly one completion tag,
\* which carries the date day
IsCommitted(line, day) ==
    /\ TaskPrefixLen(line) # 0
    /\ ToLowerCase(Ch(line, TaskPrefixLen(line) - 1)) = "x"
    /\ CountCompletion(line) = 1
    /\ CompletedDateOf(line) = day

\* C1: from the check-click until the countdown reaches zero nothing is
\* written to the task's document: while a task is counting in a view, its
\* document reads as it did just before the click.
C1_NoWriteDuringGrace ==
    \A v \in Views : \A k \in DOMAIN grace[v] :
        DocText(grace[v][k].id[1]) = grace[v][k].before

\* C2: when a countdown reaches zero the commit is performed then: that
\* step writes the document, leaves the task's line checked with exactly one
\* completion tag of the current date, and leaves the cache invalidated.
C2_CommitAtExpiry ==
    [][\A v \in Views :
          expired'[v].n = expired[v].n + 1
              => /\ docs' # docs
                 /\ IsCommitted(expired'[v].line, expired'[v].day)
                 /\ expired'[v].cleared]_vars

\* C3: a countdown that ends by expiry ends exactly 5 ticks after the
\* check-click that started it.
C3_ExpiryAfterFiveTicks ==
    \A v \in Views : expired[v].n > 0 => expired[v].age = GraceQ

\* C4: while a task is counting in a view, the view's `not done` atom is
\* true for every record of that task, and every render of a `not done`
\* block keeps every fetched task that is counting.
C4_NotDoneKeepsCounting ==
    \A v \in Views :
        /\ \A o \in DOMAIN heap :
              TaskId(heap[o]) \in activeCountdowns[v]
                  => evaluateAtom("not done", heap[o], activeCountdowns[v], today)
        /\ (source[v] = "not done" /\ lastRender[v].has)
              => lastRender[v].counting \subseteq lastRender[v].kept

\* a render of a `not done` block, after a rescan, that fetched a completed
\* record of a counting task and kept it
C4_Witness ==
    \E v \in Views :
        /\ source[v] = "not done"
        /\ lastRender[v].has /\ lastRender[v].rescan
        /\ lastRender[v].provisional # {}
        /\ lastRender[v].provisional \subseteq lastRender[v].kept
        /\ lastRender[v].provisional \subseteq activeCountdowns[v]

(***************************************************************************)
(* The query interpreter on its own: render from the fetched tasks to the  *)
(* groups, for one query text and one task sequence                        *)
(***************************************************************************)
\* atoms in one generated filter line
MaxAtoms == 3
\* records in one task sequence
MaxTasks == 3

Levels == {"high", "normal", "low"}

\* the records getTasks returns for these lines
TaskPool ==
    { parseTaskLine("- [ ] a", 0, "Today/x.md", FALSE),
      parseTaskLine("- [x] b [completed: 2026-11-01]", 1, "Today/x.md", TRUE),
      parseTaskLine("- [ ] c [priority: high]", 0, "notes.md", FALSE),
      parseTaskLine("- [x] d [priority: low] [completed: 2026-10-31]", 0, "2024.md", TRUE) }

\* getTasks goes file by file and down the lines of a file
ScanOrdered(ts) ==
    \A i, j \in 1..Len(ts) :
        (i < j /\ ts[i].path = ts[j].path)
            => /\ ts[i].line < ts[j].line
               /\ \A k \in i..j : ts[k].path = ts[i].path

TaskSeqs(n) ==
    {ts \in UNION {[1..k -> TaskPool] : k \in 0..n} : ScanOrdered(ts)}

AtomPool == {"not done", "priority is high", "priority is low"}

\* a filter line written from its atoms and the connectives between them
RECURSIVE LineText(_, _)
LineText(atoms, conns) ==
    IF Len(atoms) = 1 THEN atoms[1]
    ELSE atoms[1] \o " " \o conns[1] \o " " \o LineText(Tail(atoms), Tail(conns))

\* what the writer of that line means: alternatives, each a list of atoms
RECURSIVE Alternatives(_, _)
Alternatives(atoms, conns) ==
    IF Len(atoms) = 1 THEN << <<atoms[1]>> >>
    ELSE LET rest == Alternatives(Tail(atoms), Tail(conns))
         IN  IF conns[1] = "AND"
             THEN << <<atoms[1]>> \o Head(rest) >> \o Tail(rest)
             ELSE << <<atoms[1]>> >> \o rest

GeneratedLines ==
    UNION { { [text |-> LineText(as, cs), alts |-> Alternatives(as, cs)] :
                as \in [1..n -> AtomPool], cs \in [1..(n - 1) -> {"AND", "OR"}] } :
            n \in 1..MaxAtoms }

\* queries of one generated line, alone or followed by a second filter line
GeneratedQueries ==
    { [source |-> l.text, intent |-> <<l.alts>>] : l \in GeneratedLines }
    \cup { [source |-> l.text \o "\npath includes Today",
            intent |-> <<l.alts, << <<"path includes Today">> >> >>] : l \in GeneratedLines }

OneAtom(a) == << << <<a>> >> >>
\* queries written out, each with the filter lines its writer means
ListedQueries ==
    { [source |-> "", intent |-> <<>>],
      [source |-> "limit 2", intent |-> <<>>],
      [source |-> "limit 0", intent |-> <<>>],
      [source |-> "limit -1", intent |-> <<>>],
      [source |-> "limit x", intent |-> <<>>],
      [source |-> "LIMIT 1", intent |-> <<>>],
      [source |-> "sort by priority", intent |-> <<>>],
      [source |-> "Sort By Priority\nlimit 2", intent |-> <<>>],
      [source |-> "group by path", intent |-> <<>>],
      [source |-> "sort by priority\ngroup by path", intent |-> <<>>],
      [source |-> "not done\nsort by priority\nlimit 1", intent |-> OneAtom("not done")],
      [source |-> "is overdue", intent |-> OneAtom("is overdue")],
      [source |-> "not done AND is overdue",
       intent |-> << << <<"not done", "is overdue">> >> >>],
      [source |-> "is overdue OR done today",
       intent |-> << << <<"is overdue">>, <<"done today">> >> >>],
      [source |-> "  Not Done \tAND\t Priority IS High ",
       intent |-> << << <<"Not Done", "Priority IS High">> >> >>],
      [source |-> "done today", intent |-> OneAtom("done today")],
      [source |-> "tag includes PRIORITY", intent |-> OneAtom("tag includes PRIORITY")] }
    \cup { [source |-> "priority is " \o l, intent |-> OneAtom("priority is " \o l)] :
             l \in Levels }
    \cup { [source |-> "priority is not " \o l, intent |-> OneAtom("priority is not " \o l)] :
             l \in Levels }

\* the countdown sets a view can hold for the tasks of TaskPool
ListedCountdowns == { {}, {<<"Today/x.md", 1>>} }

QInit ==
    /\ ViewInit
    /\ editorOpen = {}
    /\ \A v \in Views : source[v] = "not done"
    /\ \/ \E q \in GeneratedQueries, ts \in TaskSeqs(1) :
             /\ Len(ts) = 1
             /\ qSource = q.source /\ qIntent = q.intent
             /\ qTasks = ts
             /\ qCountdowns \in {{}, {TaskId(ts[1])}}
       \/ \E q \in ListedQueries, ts \in TaskSeqs(MaxTasks) :
             /\ qSource = q.source /\ qIntent = q.intent
             /\ qTasks = ts
             /\ qCountdowns \in ListedCountdowns
    /\ qOut = [done |-> FALSE]
    /\ rtLine = ""
    /\ rtOut = [done |-> FALSE]
    /\ CacheIdle
    /\ WatcherIdle
    /\ EditIdle

\* render, from the filter to the groups, on the fetched tasks qTasks
QRender ==
    /\ ~qOut.done
    /\ qOut' = Pipeline(qTasks, qSource, qCountdowns, today)
    /\ UNCHANGED <<qSource, qIntent, qTasks, qCountdowns, rtLine, rtOut>>
    /\ UNCHANGED offQueryVars

QNext == QRender

SpecQuery == QInit /\ [][QNext]_vars

(***************************************************************************)
(* Query language (C5 - C10)                                               *)
(***************************************************************************)
Member(t, seq) == \E j \in 1..Len(seq) : seq[j] = t

Counting(t) == TaskId(t) \in qCountdowns

AtomTrue(a, t) == evaluateAtom(a, t, qCountdowns, today)

\* every line has an alternative all of whose atoms are true
IntentHolds(t) ==
    \A l \in 1..Len(qIntent) : \E a \in 1..Len(qIntent[l]) :
        \A k \in 1..Len(qIntent[l][a]) : AtomTrue(qIntent[l][a][k], t)

\* C5: the compiled filter keeps a record exactly when every filter line has
\* an OR-alternative all of whose AND-atoms are true for it; `not done` with
\* `path includes Today` keeps the uncompleted records under Today/ and drops
\* the completed ones, and `priority is high OR priority is low` keeps
\* exactly the high and the low records.
C5_FilterIsAndOfOrs ==
    qOut.done =>
        /\ qOut.filtered = SelectSeq(qTasks, IntentHolds)
        /\ qSource = "not done\npath includes Today"
              => \A i \in 1..Len(qTasks) :
                    Member(qTasks[i], qOut.filtered)
                        <=> /\ StartsWith(qTasks[i].path, "Today/")
                            /\ (~qTasks[i].completed \/ Counting(qTasks[i]))
        /\ qSource = "priority is high OR priority is low"
              => \A i \in 1..Len(qTasks) :
                    Member(qTasks[i], qOut.filtered)
                        <=> qTasks[i].priority \in {"high", "low"}

\* a two-line query whose first line is `a AND b OR c`: the record fails the
\* first alternative and is kept through the second
C5_Witness ==
    /\ qOut.done
    /\ Len(qIntent) = 2 /\ Len(qIntent[1]) = 2 /\ Len(qIntent[1][1]) = 2
    /\ Len(qTasks) = 1
    /\ \E k \in 1..2 : ~AtomTrue(qIntent[1][1][k], qTasks[1])
    /\ qOut.filtered = qTasks

\* C6: `priority is L` keeps exactly the records of priority L and
\* `priority is not L` exactly the records of another priority, for each
\* level L.
C6_PriorityAtoms ==
    qOut.done =>
        \A l \in Levels :
            /\ qSource = "priority is " \o l
                  => qOut.filtered = SelectSeq(qTasks, LAMBDA t : t.priority = l)
            /\ qSource = "priority is not " \o l
                  => qOut.filtered = SelectSeq(qTasks, LAMBDA t : t.priority # l)

\* the atom patterns the query language names
Recognized(atom) ==
    LET low == Trim(ToLowerCase(atom))
    IN  \/ low \in {"not done", "done", "is done", "done today"}
        \/ StartsWith(low, "path includes ")
        \/ StartsWith(low, "tag includes ")
        \/ StartsWith(low, "priority is ")

IntentAtoms ==
    {qIntent[l][a][k] : <<l, a, k>> \in
        {x \in (1..Len(qIntent)) \X (1..MaxAtoms + 1) \X (1..MaxAtoms + 1) :
            x[2] <= Len(qIntent[x[1]]) /\ x[3] <= Len(qIntent[x[1]][x[2]])}}

\* the intent with every unrecognized atom taken as true
IntentHoldsOpen(t) ==
    \A l \in 1..Len(qIntent) : \E a \in 1..Len(qIntent[l]) :
        \A k \in 1..Len(qIntent[l][a]) :
            ~Recognized(qIntent[l][a][k]) \/ AtomTrue(qIntent[l][a][k], t)

\* C7: every atom evaluates to a boolean on every record, an unrecognized
\* atom to true, and the filter keeps what it would keep with the
\* unrecognized atoms taken as true.
C7_FailOpen ==
    qOut.done =>
        /\ \A i \in 1..Len(qTasks) : \A a \in IntentAtoms :
              /\ AtomTrue(a, qTasks[i]) \in BOOLEAN
              /\ ~Recognized(a) => AtomTrue(a, qTasks[i])
        /\ qOut.filtered = SelectSeq(qTasks, IntentHoldsOpen)

\* a filter with an unrecognized atom that keeps some records and drops others
C7_Witness ==
    /\ qOut.done
    /\ \E a \in IntentAtoms : ~Recognized(a)
    /\ qOut.filtered # <<>>
    /\ qOut.filtered # qTasks

\* high before normal before low
PriorityRank(t) ==
    CASE t.priority = "high" -> 1 [] t.priority = "normal" -> 2 [] t.priority = "low" -> 3

Pos(seq, t) == CHOOSE k \in 1..Len(seq) : seq[k] = t

\* out holds the records of inp by priority, equal priorities in inp's order
SortedByPriority(out, inp) ==
    /\ Len(out) = Len(inp)
    /\ \A i \in 1..Len(inp) : Member(inp[i], out)
    /\ \A i, j \in 1..Len(out) :
          i < j => \/ PriorityRank(out[i]) < PriorityRank(out[j])
                   \/ /\ PriorityRank(out[i]) = PriorityRank(out[j])
                      /\ Pos(inp, out[i]) < Pos(inp, out[j])

C9_LimitTruncates ==
    qOut.done =>
        LET lim == qOut.config.limit
            n   == Len(qOut.sorted)
        IN  /\ lim.set
                  => /\ lim.val >= 0
                     /\ qOut.limited = SubSeq(qOut.sorted, 1, IF lim.val < n THEN lim.val ELSE n)
                     /\ Len(qOut.limited) <= lim.val
            /\ ~lim.set => qOut.limited = qOut.sorted

\* the group keys of ts in the order of their first occurrence
RECURSIVE FirstSeenKeys(_, _, _)
FirstSeenKeys(ts, groupBy, seen) ==
    IF ts = <<>> THEN seen
    ELSE LET key == GroupKey(Head(ts), groupBy)
         IN  FirstSeenKeys(Tail(ts), groupBy,
                           IF \E i \in 1..Len(seen) : seen[i] = key THEN seen
                           ELSE Append(seen, key))

\* C10: the groups are rendered in the order in which their keys first occur
\* in the filtered, sorted and limited sequence, and the tasks of a group
\* keep their order in that sequence.
C10_GroupsFirstSeen ==
    qOut.done =>
        LET keys == FirstSeenKeys(qOut.limited, qOut.config.groupBy, <<>>)
        IN  /\ ~qOut.threw
            /\ Len(qOut.groups) = Len(keys)
            /\ \A g \in 1..Len(keys) :
                  /\ qOut.groups[g].key = keys[g]
                  /\ qOut.groups[g].tasks
                        = SelectSeq(qOut.limited,
                                    LAMBDA t : GroupKey(t, qOut.config.groupBy) = keys[g])


(***************************************************************************)
(* The editor-change watcher on one line                                   *)
(***************************************************************************)
\* this.completionRegex.test(line): the pattern has no g flag, so the test
\* keeps no position between calls
HasCompletionTag(line) == \E i \in 1..Len(line) : CompletionTagEnd(line, i) # 0

\* line.replace(/\s*\[(?:completed|completion):\s*[^\]]*\]/gi, ''): one pass
\* from the left; the white space before a tag goes with it
RECURSIVE StripCompletionWs(_)
StripCompletionWs(s) ==
    IF s = "" THEN ""
    ELSE LET e == CompletionTagEnd(s, LeadWs(s) + 1)
         IN  IF e # 0 THEN StripCompletionWs(From(s, e + 1))
             ELSE Head(s) \o StripCompletionWs(Tail(s))

\* taskMatch[2].toLowerCase() === 'x' for a line that matches
WatcherIsDone(line) == ToLowerCase(Ch(line, TaskPrefixLen(line) - 1)) = "x"

\* the text the watcher leaves at a line: the tag appended, the tags
\* stripped, or the line as it was
WatcherLine(line, now) ==
    IF TaskPrefixWsLen(line) = 0 THEN line
    ELSE IF WatcherIsDone(line) /\ ~HasCompletionTag(line)
         THEN TrimEnd(line) \o CompletedTag(now)
    ELSE IF ~WatcherIsDone(line) /\ HasCompletionTag(line)
         THEN TrimEnd(StripCompletionWs(line))
    ELSE line

WatcherLines(lines, now) == [i \in DOMAIN lines |-> WatcherLine(lines[i], now)]

(***************************************************************************)
(* The vault cache under concurrent renders (C11 - C13)                    *)
(***************************************************************************)
MaxCalls == 3
MaxClears == 1
MaxWrites == 1
MaxEdits == 1

\* two documents with tasks, so that a scan is suspended twice, and one
\* document without list items
CacheVault ==
    << [path |-> "Today/x.md", lines |-> <<"- [ ] a">>],
       [path |-> "README.md", lines |-> <<"# notes">>],
       [path |-> "Work/y.md", lines |-> <<"- [x] b [completed: 2026-10-31]">>] >>

\* what the cache model leaves alone: the views and the query interpreter
offCacheVars == <<editorOpen, today, changed, loaded, source, lastRenderedHash, refreshTimer,
                  activeCountdowns, items, display, intervals, scans, toggles, clicks,
                  grace, expired, lastRender, queryVars, watcherVars, editVars>>

CInit ==
    /\ docs = CacheVault
    /\ editorOpen = {"Today/x.md"}
    /\ source = [v \in Views |-> "not done"]
    /\ ViewRest
    /\ QueryIdle
    /\ CacheIdle
    /\ WatcherIdle
    /\ EditIdle

\* the records of the cache, as getTasks returns them on a hit
CachedRecords == [i \in 1..Len(taskCache) |-> heap[taskCache[i]]]

Returned(hit, pre, old, records) ==
    [state |-> "returned", hit |-> hit, pre |-> pre, old |-> old, records |-> records]

\* getTasks up to its first await, called by the render c
GetTasks(c, tc, age, pending, window) ==
    IF Len(tc) > 0 /\ age < TtlQ
    THEN /\ cCalls' = [cCalls EXCEPT ![c] =
                          Returned(TRUE, cFlags.pre, cFlags.old, CachedRecords)]
         /\ cWindow' = [window EXCEPT !.results = @ \cup {CachedRecords}]
         /\ cScans' = pending
         /\ UNCHANGED cFlags
         /\ taskCache' = tc /\ scanAge' = age /\ UNCHANGED heap
    ELSE IF NextListFile(0) = 0
    THEN /\ cCalls' = [cCalls EXCEPT ![c] = Returned(FALSE, FALSE, FALSE, <<>>)]
         /\ cWindow' = [scans |-> window.scans + 1, results |-> window.results \cup {<<>>}]
         /\ cScans' = pending
         /\ cFlags' = [pre |-> FALSE, old |-> FALSE]
         /\ taskCache' = <<>> /\ scanAge' = 0 /\ heap' = <<>>
    ELSE /\ cCalls' = [cCalls EXCEPT ![c] = [NoCall EXCEPT !.state = "scanning"]]
         /\ cWindow' = [window EXCEPT !.scans = @ + 1]
         /\ cScans' = Append(pending, [caller |-> c, idx |-> NextListFile(0), acc |-> <<>>,
                                       read |-> {}, late |-> FALSE, pre |-> FALSE,
                                       old |-> FALSE, inWin |-> TRUE])
         /\ UNCHANGED cFlags
         /\ taskCache' = tc /\ scanAge' = age
         /\ heap' = IF Len(tc) = 0 THEN <<>> ELSE heap

\* render() of a view that loads: getTasks on the cache as it is
CRender(c) ==
    /\ cCalls[c].state # "scanning"
    /\ cCount.calls < MaxCalls
    /\ cCount' = [cCount EXCEPT !.calls = @ + 1]
    /\ GetTasks(c, taskCache, scanAge, cScans, cWindow)
    /\ UNCHANGED <<docs, internalAge>>
    /\ UNCHANGED offCacheVars

\* what clearCache means to the scans in flight: one that has read a
\* document holds data from before the invalidation
AfterClear(pending) ==
    [k \in DOMAIN pending |->
        [pending[k] EXCEPT !.pre = @ \/ pending[k].read # {}, !.inWin = FALSE]]

\* a settle timer, the refresh-all timer or a countdown at its end:
\* clearCache(), then render() and with it getTasks
CRefresh(c) ==
    /\ cCalls[c].state # "scanning"
    /\ cCount.calls < MaxCalls /\ cCount.clears < MaxClears
    /\ cCount' = [cCount EXCEPT !.calls = @ + 1, !.clears = @ + 1]
    /\ GetTasks(c, <<>>, TtlQ, AfterClear(cScans), NoWindow)
    /\ UNCHANGED <<docs, internalAge>>
    /\ UNCHANGED offCacheVars

\* a cachedRead of getTasks resolves: the lines of that file are parsed, and
\* after the last file the cache is replaced, lastScanTime being the time
\* of the call
CScanResume(k) ==
    /\ k \in DOMAIN cScans
    /\ LET sc  == cScans[k]
           acc == sc.acc \o ScanFileTasks(docs[sc.idx])
           nxt == NextListFile(sc.idx)
       IN  IF nxt # 0
           THEN /\ cScans' = [cScans EXCEPT ![k] =
                                 [sc EXCEPT !.idx = nxt, !.acc = acc,
                                            !.read = @ \cup {sc.idx}]]
                /\ UNCHANGED <<heap, taskCache, scanAge, cCalls, cFlags, cWindow>>
           ELSE /\ cScans' = RemoveAt(cScans, k)
                /\ heap' = acc
                /\ taskCache' = [i \in 1..Len(acc) |-> i]
                /\ scanAge' = IF sc.late THEN TtlQ ELSE 0
                /\ cCalls' = [cCalls EXCEPT ![sc.caller] =
                                 Returned(FALSE, sc.pre, sc.old, acc)]
                /\ cFlags' = [pre |-> sc.pre, old |-> sc.old]
                /\ cWindow' = IF sc.inWin
                              THEN [cWindow EXCEPT !.results = @ \cup {acc}]
                              ELSE cWindow
    /\ UNCHANGED <<docs, internalAge, cCount>>
    /\ UNCHANGED offCacheVars

\* what a write-back to the document at index f means to the scans in
\* flight: one that has read the document holds an entry scanned before it
AfterWrite(pending, f) ==
    [k \in DOMAIN pending |-> [pending[k] EXCEPT !.old = @ \/ f \in pending[k].read]]

\* toggleTask on the task at line 0 of the document at index f, through
\* safeModifyLine: the line is rewritten and lastInternalUpdate set; the
\* cache is left as it is
CToggleWrite(f) ==
    /\ f \in DOMAIN docs
    /\ cCount.writes < MaxWrites
    /\ ~ToggleAborts(docs[f].lines, 0)
    /\ docs' = WriteLine(docs[f].path, 0,
                         ToggleLine(docs[f].lines[1], ~WatcherIsDone(docs[f].lines[1]), today))
    /\ internalAge' = 0
    /\ cCount' = [cCount EXCEPT !.writes = @ + 1]
    /\ cScans' = AfterWrite(cScans, f)
    /\ cFlags' = [cFlags EXCEPT !.old = @ \/ Len(taskCache) > 0]
    /\ UNCHANGED <<heap, taskCache, scanAge, cCalls, cWindow>>
    /\ UNCHANGED offCacheVars

\* the user flips the checkbox of line 0 in the open editor
CUserEdit(f) ==
    /\ f \in DOMAIN docs /\ docs[f].path \in editorOpen
    /\ cCount.edits < MaxEdits
    /\ TaskPrefixLen(docs[f].lines[1]) # 0
    /\ docs' = WriteLine(docs[f].path, 0,
                         SetCheckbox(docs[f].lines[1],
                                     IF WatcherIsDone(docs[f].lines[1]) THEN "[ ]" ELSE "[x]"))
    /\ cCount' = [cCount EXCEPT !.edits = @ + 1]
    /\ UNCHANGED <<heap, taskCache, scanAge, internalAge, cScans, cCalls, cFlags, cWindow>>
    /\ UNCHANGED offCacheVars

\* the watcher's scan of the open document when it rewrites a line:
\* lastInternalUpdate is set and the cache cleared
CWatcherRewrite(f) ==
    /\ f \in DOMAIN docs /\ docs[f].path \in editorOpen
    /\ cCount.clears < MaxClears
    /\ WatcherLines(docs[f].lines, today) # docs[f].lines
    /\ docs' = [docs EXCEPT ![f].lines = WatcherLines(@, today)]
    /\ internalAge' = 0
    /\ cCount' = [cCount EXCEPT !.clears = @ + 1]
    /\ cScans' = AfterWrite(AfterClear(cScans), f)
    /\ cFlags' = [pre |-> FALSE, old |-> FALSE]
    /\ cWindow' = NoWindow
    /\ taskCache' = <<>> /\ heap' = <<>> /\ scanAge' = TtlQ
    /\ UNCHANGED cCalls
    /\ UNCHANGED offCacheVars

\* ten seconds pass: the cache and the scans in flight are older than the
\* time to live
CTtlElapses ==
    /\ scanAge < TtlQ \/ \E k \in DOMAIN cScans : ~cScans[k].late
    /\ scanAge' = TtlQ
    /\ cScans' = [k \in DOMAIN cScans |-> [cScans[k] EXCEPT !.late = TRUE, !.inWin = FALSE]]
    /\ cWindow' = NoWindow
    /\ UNCHANGED <<docs, internalAge, heap, taskCache, cCalls, cFlags, cCount>>
    /\ UNCHANGED offCacheVars

CNext ==
    \/ \E c \in Callers : CRender(c)
    \/ \E c \in Callers : CRefresh(c)
    \/ \E k \in DOMAIN cScans : CScanResume(k)
    \/ \E f \in DOMAIN docs : CToggleWrite(f)
    \/ \E f \in DOMAIN docs : CUserEdit(f)
    \/ \E f \in DOMAIN docs : CWatcherRewrite(f)
    \/ CTtlElapses

SpecCache == CInit /\ [][CNext]_vars

\* C11: two getTasks calls within the time to live and with no invalidation
\* between them run at most one full scan and return the same records, also
\* when the second call comes while the scan of the first is in progress.
C11_OneScanPerWindow == cWindow.scans <= 1 /\ Cardinality(cWindow.results) <= 1

\* C12: a getTasks call after clearCache never returns from the cache
\* records that a scan read before the invalidation.
C12_NoStaleRepopulation ==
    \A c \in Callers : cCalls[c].state = "returned" /\ cCalls[c].hit => ~cCalls[c].pre

\* C13: a getTasks call after a write-back never returns from the cache an
\* entry that was scanned before the write-back.
C13_WriteInvalidates ==
    \A c \in Callers : cCalls[c].state = "returned" /\ cCalls[c].hit => ~cCalls[c].old


MaxEvents == 2
MaxSwitches == 1

\* clearTimeout(handle): a handle that is null or has fired clears nothing
ClearTimeout_Kept(timers, handle) == timers

ClearTimeout(timers, handle) == SelectSeq(timers, LAMBDA t : t.id # handle)

\* the 'fast-todos:status-change' events of one scan, in line order; none
\* without an active file
WatcherEvents(lines, active) ==
    LET idx == SelectSeq([i \in 1..Len(lines) |-> i],
                         LAMBDA i : TaskPrefixWsLen(lines[i]) # 0)
    IN  IF active = "" THEN <<>>
        ELSE [k \in 1..Len(idx) |->
                 [id |-> <<active, idx[k] - 1>>, isDone |-> WatcherIsDone(lines[idx[k]])]]

\* the status-change handlers of the loaded views, for one event: each needs
\* its item element and the task in the shared cache
StatusChange(st, ev) ==
    LET cachedAt == {i \in DOMAIN taskCache : TaskId(st.heap[taskCache[i]]) = ev.id}
        shows(v) == {k \in DOMAIN st.items[v] : st.items[v][k].id = ev.id}
        hit(v)   == loaded[v] /\ shows(v) # {} /\ cachedAt # {}
    IN  [heap  |-> IF \E v \in Views : hit(v)
                   THEN [st.heap EXCEPT ![taskCache[MinOf(cachedAt)]].completed = ev.isDone]
                   ELSE st.heap,
         items |-> [v \in Views |->
                      IF hit(v) THEN [st.items[v] EXCEPT ![MinOf(shows(v))].checked = ev.isDone]
                      ELSE st.items[v]],
         cds   |-> [v \in Views |->
                      IF hit(v) /\ ~ev.isDone THEN st.cds[v] \ {ev.id} ELSE st.cds[v]],
         grace |-> [v \in Views |->
                      IF hit(v) /\ ~ev.isDone THEN GraceDrop(st.grace[v], ev.id)
                      ELSE st.grace[v]]]

RECURSIVE Deliver(_, _)
Deliver(evs, st) ==
    IF evs = <<>> THEN st ELSE Deliver(Tail(evs), StatusChange(st, Head(evs)))

\* every view that displays the task of an event shows the status of the event
Shown(evs, its) ==
    \A e \in DOMAIN evs : \A v \in Views : \A k \in DOMAIN its[v] :
        its[v][k].id = evs[e].id => its[v][k].checked = evs[e].isDone

\* the timeouts after a scan: every editor.setLine of the scan is itself an
\* 'editor-change', which clears the timeout before and sets a new one
OwnChange(k, lines, after) ==
    IF after = lines THEN RemoveAt(wTimers, k)
    ELSE Append(ClearTimeout(RemoveAt(wTimers, k), completionTimer),
                [id |-> completionTimer + 1, rem |-> Quanta(DebounceMs),
                 editor |-> wTimers[k].editor, own |-> TRUE])

\* the end of the timeout callback: the lines are set, and when one changed
\* lastInternalUpdate is set and the cache cleared
WatcherDone(k, lines, after, evs, st) ==
    /\ docs' = IF after # lines
               THEN [docs EXCEPT ![FileIndex(wTimers[k].editor)].lines = after]
               ELSE docs
    /\ changed' = (changed \/ after # lines)
    /\ internalAge' = IF after # lines THEN 0 ELSE internalAge
    /\ scanAge' = IF after # lines THEN TtlQ ELSE scanAge
    /\ SetRefs(st.heap, IF after # lines THEN <<>> ELSE taskCache, st.items, toggles)
    /\ activeCountdowns' = st.cds
    /\ grace' = st.grace
    /\ wTimers' = OwnChange(k, lines, after)
    /\ completionTimer' = IF after = lines THEN completionTimer ELSE completionTimer + 1
    /\ wSince' = IF after = lines THEN [wSince EXCEPT !.events = 0]
                 ELSE [events |-> Cardinality({i \in DOMAIN lines : after[i] # lines[i]}),
                       age |-> 0]
    /\ wLast' = [has |-> TRUE, path |-> wTimers[k].editor, active |-> wActive,
                 before |-> lines, after |-> after, events |-> evs,
                 gap |-> wSince.age, since |-> wSince.events,
                 shown |-> Shown(evs, st.items),
                 cancelled |-> UNION {activeCountdowns[v] \ st.cds[v] : v \in Views},
                 own |-> wTimers[k].own]
    /\ UNCHANGED <<editorOpen, today, loaded, source, lastRenderedHash, refreshTimer, display,
                   intervals, scans, clicks, expired, lastRender>>
    /\ UNCHANGED <<queryVars, cacheVars, editVars, wActive, wCount>>

WatcherDeliver(k, lines, after, evs) ==
    WatcherDone(k, lines, after, evs,
                Deliver(evs, [heap |-> heap, items |-> items, cds |-> activeCountdowns,
                              grace |-> grace]))

WatcherScan(k, lines) ==
    WatcherDeliver(k, lines, WatcherLines(lines, today), WatcherEvents(lines, wActive))

\* the timeout callback of the watcher: the scan of the editor of the event
WatcherFire(k) ==
    /\ k \in DOMAIN wTimers
    /\ wTimers[k].rem = 0
    /\ WatcherScan(k, DocText(wTimers[k].editor))

\* 'editor-change': the user leaves text at line i of the active editor;
\* the timeout before is cleared and a new one set
EditorChange(p, i, text) ==
    /\ p = wActive /\ p \in editorOpen
    /\ i \in DOMAIN DocText(p)
    /\ text # DocText(p)[i]
    /\ wCount.events < MaxEvents
    /\ docs' = WriteLine(p, i - 1, text)
    /\ changed' = TRUE
    /\ wTimers' = Append(ClearTimeout(wTimers, completionTimer),
                         [id |-> wCount.events + 1, rem |-> Quanta(DebounceMs), editor |-> p,
                          own |-> FALSE])
    /\ completionTimer' = wCount.events + 1
    /\ wSince' = [events |-> wSince.events + 1, age |-> 0]
    /\ wCount' = [wCount EXCEPT !.events = @ + 1]
    /\ UNCHANGED <<editorOpen, today, heap, taskCache, scanAge, internalAge, loaded, source,
                   lastRenderedHash, refreshTimer, activeCountdowns, items, display, intervals,
                   scans, toggles, clicks, grace, expired, lastRender>>
    /\ UNCHANGED <<queryVars, cacheVars, editVars, wActive, wLast>>

\* the user makes another pane, or none, the active one
SwitchActive(p) ==
    /\ p \in editorOpen \cup {""}
    /\ p # wActive
    /\ wCount.switches < MaxSwitches
    /\ wActive' = p
    /\ wCount' = [wCount EXCEPT !.switches = @ + 1]
    /\ UNCHANGED viewVars
    /\ UNCHANGED <<queryVars, cacheVars, editVars, wTimers, completionTimer, wSince, wLast>>

\* what the user may leave at a line
LinePool ==
    { "- [ ] a",
      "- [x] a",
      "- [X] a  ",
      "- [ ] a [completed: 2026-10-31]",
      "- [x] a [completion: 2026-10-30]",
      "- [ ] a [Completed:1] b  [completion: 2] ",
      "see [completed: 2026-10-31]",
      "- [ ] a [comp[completed: 1]leted: 2]" }

WatcherVault ==
    << [path |-> "Today/x.md", lines |-> <<"# plan", "- [ ] a">>],
       [path |-> "Work/y.md", lines |-> <<"- [x] b [completed: 2026-10-31]">>] >>

WInit ==
    /\ docs = WatcherVault
    /\ editorOpen = {"Today/x.md", "Work/y.md"}
    /\ source = [v \in Views |-> "not done"]
    /\ ViewRest
    /\ QueryIdle
    /\ CacheIdle
    /\ wTimers = <<>>
    /\ completionTimer = 0
    /\ wActive = "Today/x.md"
    /\ wSince = [events |-> 0, age |-> Quanta(DebounceMs)]
    /\ wLast = NoScan
    /\ wCount = [events |-> 0, switches |-> 0]
    /\ EditIdle

WNext ==
    \/ \E p \in editorOpen : \E i \in DOMAIN DocText(p) : \E text \in LinePool :
           EditorChange(p, i, text)
    \/ \E p \in editorOpen \cup {""} : SwitchActive(p)
    \/ \E k \in DOMAIN wTimers : WatcherFire(k)
    \/ MetadataChanged
    \/ Advance
    \/ Idle

SpecWatcher == WInit /\ [][WNext]_vars

\* C15: the watcher debounces on the trailing edge: at most one scan is
\* pending; one is pending exactly while change events wait for their scan,
\* and it is due 500 ms after the latest of them; a scan runs only when
\* 500 ms have passed since the latest change event, and answers a burst of
\* at least one event.
C15_TrailingDebounce ==
    /\ Len(wTimers) <= 1
    /\ wSince.events > 0 <=> wTimers # <<>>
    /\ \A k \in DOMAIN wTimers : wTimers[k].rem + wSince.age = Quanta(DebounceMs)
    /\ wLast.has => wLast.gap >= Quanta(DebounceMs) /\ wLast.since >= 1

\* one scan has answered a burst of two change events
C15_Witness == wLast.has /\ wLast.since = 2 /\ wTimers = <<>>

\* C16: after a watcher scan every line that matches the task pattern has a
\* completion tag exactly when its checkbox is checked (today's tag added
\* where it was missing), and every other line is as it was.
C16_TagsFollowCheckbox ==
    wLast.has =>
        \A i \in DOMAIN wLast.before :
            IF TaskPrefixWsLen(wLast.before[i]) # 0
            THEN /\ HasCompletionTag(wLast.after[i]) <=> WatcherIsDone(wLast.after[i])
                 /\ WatcherIsDone(wLast.after[i]) <=> WatcherIsDone(wLast.before[i])
                 /\ WatcherIsDone(wLast.before[i]) /\ ~HasCompletionTag(wLast.before[i])
                        => EndsWith(wLast.after[i], CompletedTag(today))
            ELSE wLast.after[i] = wLast.before[i]

\* C17: a watcher scan publishes, for each line that matches the task
\* pattern, exactly one status-change event; it carries the path of the
\* scanned document, the index of the line and whether the line is done.
C17_OneEventPerTaskLine ==
    wLast.has =>
        LET matching == {i \in DOMAIN wLast.before : TaskPrefixWsLen(wLast.before[i]) # 0}
        IN  /\ Len(wLast.events) = Cardinality(matching)
            /\ \A i \in matching :
                   \E e \in DOMAIN wLast.events :
                       /\ wLast.events[e].id = <<wLast.path, i - 1>>
                       /\ wLast.events[e].isDone = WatcherIsDone(wLast.before[i])

(***************************************************************************)
(* A view beside the editor (C18)                                          *)
(***************************************************************************)
\* the user types the other status into the checkbox of a task line
FlipText(line) ==
    IF TaskPrefixLen(line) = 0 THEN line
    ELSE SetCheckbox(line, IF WatcherIsDone(line) THEN "[ ]" ELSE "[x]")

SyncVault == << [path |-> "Today/x.md", lines |-> <<"- [ ] a">>] >>

SInit ==
    /\ docs = SyncVault
    /\ editorOpen = {"Today/x.md"}
    /\ source = [v \in Views |-> "path includes Today"]
    /\ ViewRest
    /\ QueryIdle
    /\ CacheIdle
    /\ wTimers = <<>>
    /\ completionTimer = 0
    /\ wActive = "Today/x.md"
    /\ wSince = [events |-> 0, age |-> Quanta(DebounceMs)]
    /\ wLast = NoScan
    /\ wCount = [events |-> 0, switches |-> 0]
    /\ EditIdle

SNext ==
    \/ \E v \in Views : Onload(v)
    \/ \E k \in DOMAIN scans : ScanResume(k)
    \/ MetadataChanged
    \/ \E v \in Views : RefreshFire(v)
    \/ \E p \in editorOpen : \E i \in DOMAIN DocText(p) :
           EditorChange(p, i, FlipText(DocText(p)[i]))
    \/ \E k \in DOMAIN wTimers : WatcherFire(k)
    \/ Advance
    \/ Idle

SpecSync == SInit /\ [][SNext]_vars

\* C18: after the status-change events of a watcher scan are delivered,
\* every view that displays the task of an event shows the status the event
\* carries, whatever the state of the cache.
C18_ViewsFollowEvents == wLast.has => wLast.shown

(***************************************************************************)
(* Edits saved in the modal (C19)                                          *)
(***************************************************************************)
MaxSaves == 2
RefreshAllMs == 400

\* what the user may save in the modal
SavePool ==
    { [description |-> "a", completed |-> TRUE, priority |-> "normal"],
      [description |-> "a2 [due: 2026-12-01]", completed |-> FALSE, priority |-> "high"] }

\* the description with the known tags stripped, and the priority tag
CleanDesc(result) ==
    Trim(StripMeta(result.description))
        \o (IF result.priority # "normal" THEN " [priority: " \o result.priority \o "]" ELSE "")

\* the line updateTask hands to safeModifyLine, for a line that matches
UpdateTaskLine(line, result, now) ==
    TrimEnd(SetCheckbox(SubSeq(line, 1, TaskPrefixWsLen(line)),
                        IF result.completed THEN "[x]" ELSE "[ ]")
            \o CleanDesc(result)
            \o (IF result.completed THEN CompletedTag(now) ELSE ""))

\* the line handleTaskUpdate hands to safeModifyLine, for a line that matches
HandleUpdateLine(line, result, now) ==
    LET finalLine == SetCheckbox(SubSeq(line, 1, TaskPrefixWsLen(line)),
                                 IF result.completed THEN "[x]" ELSE "[ ]")
                         \o CleanDesc(result)
    IN  TrimEnd(IF result.completed
                THEN finalLine \o (IF Includes(line, "[completed:") THEN ""
                                   ELSE CompletedTag(now))
                ELSE TrimEnd(StripCompletion(finalLine)))

\* onSubmit of the EDIT button of a rendered task: the cached object is
\* patched, then updateTask reads the file
SaveFromView(v, k, result) ==
    /\ loaded[v]
    /\ k \in DOMAIN items[v]
    /\ eCount < MaxSaves
    /\ LET id       == items[v][k].id
           cachedAt == {i \in DOMAIN taskCache : TaskId(heap[taskCache[i]]) = id}
       IN  /\ heap' = IF cachedAt = {} THEN heap
                      ELSE [heap EXCEPT ![taskCache[MinOf(cachedAt)]] =
                               [@ EXCEPT !.completed = result.completed,
                                         !.cleanText = result.description,
                                         !.priority = result.priority]]
           /\ edits' = Append(edits, [entry |-> "view", path |-> id[1], line |-> id[2],
                                      result |-> result, stage |-> "read", newLine |-> ""])
    /\ eCount' = eCount + 1
    /\ UNCHANGED <<docs, editorOpen, today, taskCache, scanAge, internalAge, changed, loaded,
                   source, lastRenderedHash, refreshTimer, activeCountdowns, items, display,
                   intervals, scans, toggles, clicks, grace, expired, lastRender>>
    /\ UNCHANGED <<queryVars, cacheVars, watcherVars, eLast>>

\* onSubmit of the EDIT widget in the editor (entry "widget") or of the EDIT
\* button in reading mode (entry "reading"), for the task at line i of the
\* document at p: handleTaskUpdate reads the file
SaveFromNote(entry, p, i, result) ==
    /\ FileIndex(p) # 0
    /\ entry = "widget" => p \in editorOpen
    /\ i \in DOMAIN DocText(p)
    /\ TaskPrefixLen(DocText(p)[i]) # 0
    /\ eCount < MaxSaves
    /\ edits' = Append(edits, [entry |-> entry, path |-> p, line |-> i - 1,
                               result |-> result, stage |-> "read", newLine |-> ""])
    /\ eCount' = eCount + 1
    /\ UNCHANGED viewVars
    /\ UNCHANGED <<queryVars, cacheVars, watcherVars, eLast>>

\* the end of onSubmit: after updateTask the view's button triggers
\* 'fast-todos:refresh-all', and every loaded view replaces its refresh
\* timer; after handleTaskUpdate nothing follows
EditEnd(k, wrote, newLine) ==
    /\ edits' = RemoveAt(edits, k)
    /\ eLast' = [has |-> TRUE, entry |-> edits[k].entry, wrote |-> wrote,
                 broadcast |-> edits[k].entry = "view",
                 stale |-> ToggleAborts(DocText(edits[k].path), edits[k].line),
                 completed |-> edits[k].result.completed, line |-> newLine]
    /\ refreshTimer' =
          [v \in Views |->
              IF edits[k].entry = "view" /\ loaded[v]
              THEN [on |-> TRUE, rem |-> Quanta(RefreshAllMs), forced |-> TRUE]
              ELSE refreshTimer[v]]

\* updateTask / handleTaskUpdate after vault.read resolves, through
\* safeModifyLine
EditResume(k) ==
    /\ k \in DOMAIN edits
    /\ edits[k].stage = "read"
    /\ LET e     == edits[k]
           lines == DocText(e.path)
       IN  IF ToggleAborts(lines, e.line)
           THEN /\ EditEnd(k, FALSE, "")
                /\ UNCHANGED <<docs, internalAge, changed>>
           ELSE LET newLine == IF e.entry = "view"
                               THEN UpdateTaskLine(lines[e.line + 1], e.result, today)
                               ELSE HandleUpdateLine(lines[e.line + 1], e.result, today)
                IN  /\ internalAge' = 0
                    /\ IF e.path \in editorOpen
                       THEN /\ docs' = WriteLine(e.path, e.line, newLine)
                            /\ changed' = TRUE
                            /\ EditEnd(k, TRUE, newLine)
                       ELSE /\ edits' = [edits EXCEPT ![k].stage = "process",
                                                      ![k].newLine = newLine]
                            /\ UNCHANGED <<docs, changed, eLast, refreshTimer>>
    /\ UNCHANGED <<editorOpen, today, heap, taskCache, scanAge, loaded, source,
                   lastRenderedHash, activeCountdowns, items, display, intervals, scans,
                   toggles, clicks, grace, expired, lastRender>>
    /\ UNCHANGED <<queryVars, cacheVars, watcherVars, eCount>>

\* the callback of vault.process in safeModifyLine
EditProcess(k) ==
    /\ k \in DOMAIN edits
    /\ edits[k].stage = "process"
    /\ docs' = WriteLine(edits[k].path, edits[k].line, edits[k].newLine)
    /\ changed' = TRUE
    /\ EditEnd(k, TRUE, edits[k].newLine)
    /\ UNCHANGED <<editorOpen, today, heap, taskCache, scanAge, internalAge, loaded, source,
                   lastRenderedHash, activeCountdowns, items, display, intervals, scans,
                   toggles, clicks, grace, expired, lastRender>>
    /\ UNCHANGED <<queryVars, cacheVars, watcherVars, eCount>>

\* the document is changed from outside (another application, a sync) while a
\* write-back waits for vault.process: the line is replaced by plain text
OutsideEdit(k, text) ==
    /\ k \in DOMAIN edits
    /\ edits[k].stage = "process"
    /\ ~ToggleAborts(DocText(edits[k].path), edits[k].line)
    /\ docs' = WriteLine(edits[k].path, edits[k].line, text)
    /\ changed' = TRUE
    /\ UNCHANGED <<editorOpen, today, heap, taskCache, scanAge, internalAge, loaded, source,
                   lastRenderedHash, refreshTimer, activeCountdowns, items, display,
                   intervals, scans, toggles, clicks, grace, expired, lastRender>>
    /\ UNCHANGED <<queryVars, cacheVars, watcherVars, editVars>>

\* ... or the last line of the document is deleted
OutsideDelete(k) ==
    /\ k \in DOMAIN edits
    /\ edits[k].stage = "process"
    /\ Len(DocText(edits[k].path)) >= 2
    /\ edits[k].line + 1 = Len(DocText(edits[k].path))
    /\ docs' = [docs EXCEPT ![FileIndex(edits[k].path)].lines = SubSeq(@, 1, Len(@) - 1)]
    /\ changed' = TRUE
    /\ UNCHANGED <<editorOpen, today, heap, taskCache, scanAge, internalAge, loaded, source,
                   lastRenderedHash, refreshTimer, activeCountdowns, items, display,
                   intervals, scans, toggles, clicks, grace, expired, lastRender>>
    /\ UNCHANGED <<queryVars, cacheVars, watcherVars, editVars>>

EditVaults ==
    { [docs |-> << [path |-> "Today/x.md", lines |-> <<"- [ ] a">>] >>, editor |-> {}],
      [docs |-> << [path |-> "Today/x.md", lines |-> <<"# t", "- [ ] b">>] >>, editor |-> {}],
      [docs |-> << [path |-> "Today/x.md", lines |-> <<"- [x] a [completed: 2026-10-31]">>] >>,
       editor |-> {"Today/x.md"}] }

EInit ==
    /\ \E sc \in EditVaults : docs = sc.docs /\ editorOpen = sc.editor
    /\ source = [v \in Views |-> "path includes Today"]
    /\ ViewRest
    /\ QueryIdle
    /\ CacheIdle
    /\ WatcherIdle
    /\ EditIdle

ENext ==
    \/ \E v \in Views : Onload(v)
    \/ \E k \in DOMAIN scans : ScanResume(k)
    \/ \E v \in Views : \E k \in DOMAIN items[v] : \E r \in SavePool : SaveFromView(v, k, r)
    \/ \E p \in {docs[f].path : f \in DOMAIN docs} : \E i \in DOMAIN DocText(p) :
           \E r \in SavePool : SaveFromNote("widget", p, i, r)
    \/ \E p \in {docs[f].path : f \in DOMAIN docs} : \E i \in DOMAIN DocText(p) :
           \E r \in SavePool : SaveFromNote("reading", p, i, r)
    \/ \E k \in DOMAIN edits : EditResume(k)
    \/ \E k \in DOMAIN edits : EditProcess(k)
    \/ \E k \in DOMAIN edits : OutsideEdit(k, "note")
    \/ \E k \in DOMAIN edits : OutsideDelete(k)
    \/ MetadataChanged
    \/ \E v \in Views : RefreshFire(v)
    \/ Advance
    \/ Idle

SpecEdit == EInit /\ [][ENext]_vars

\* C19: every edit saved in the modal, whichever button opened it, is
\* written back at once and followed by a refresh-all broadcast.
C19_EditBroadcasts == eLast.has => eLast.wrote /\ eLast.broadcast

(***************************************************************************)
(* The task parser, round trip (C20)                                       *)
(***************************************************************************)
MaxFrags == 2

\* the checkbox prefixes and the pieces of content a task line is made of
PrefixPool == {"- [ ] ", "- [x] ", "  * [X] ", "1. [ ] ", "- [/] "}

FragPool ==
    { "a", "[priority: high]", "[priority: LOW]", "[priority: urgent]",
      "[completed: 2026-10-31]", "[completion:x ]", "[due: 2026-12-01]",
      "[completed: 2026", "#tag", "[d[due: x]ue: y]", "see [x]" }

\* the contents of at most n pieces, joined by single blanks
RECURSIVE Contents(_)
Contents(n) ==
    IF n = 0 THEN {""}
    ELSE Contents(n - 1) \cup
         {IF c = "" THEN f ELSE c \o " " \o f : c \in Contents(n - 1), f \in FragPool}

RoundTripLines == {pre \o c : pre \in PrefixPool, c \in Contents(MaxFrags)}

\* the parse of a line as getTasks obtains it
ParseLine(line) == parseTaskLine(line, 0, "Today/x.md", IsCompletedOf(line))

\* the line rebuilt from a parse: the checkbox prefix of the line, the clean
\* description, then the priority tag and the completion tag
Reconstruct(line, r) ==
    SubSeq(line, 1, TaskPrefixWsLen(line)) \o r.cleanText
        \o (IF r.priority # "normal" THEN " [priority: " \o r.priority \o "]" ELSE "")
        \o (IF r.completedDate # "" THEN " [completed: " \o r.completedDate \o "]" ELSE "")

RoundTripSecond(first, rebuilt) ==
    [done |-> TRUE, first |-> first, rebuilt |-> rebuilt, second |-> ParseLine(rebuilt)]

RoundTripFirst(line, first) == RoundTripSecond(first, Reconstruct(line, first))

PInit ==
    /\ docs = <<>>
    /\ editorOpen = {}
    /\ source = [v \in Views |-> ""]
    /\ ViewRest
    /\ qSource = "" /\ qIntent = <<>> /\ qTasks = <<>> /\ qCountdowns = {}
    /\ qOut = [done |-> FALSE]
    /\ rtLine \in RoundTripLines
    /\ rtOut = [done |-> FALSE]
    /\ CacheIdle
    /\ WatcherIdle
    /\ EditIdle

\* parse, rebuild, parse again
RoundTrip ==
    /\ ~rtOut.done
    /\ rtOut' = RoundTripFirst(rtLine, ParseLine(rtLine))
    /\ UNCHANGED <<qSource, qIntent, qTasks, qCountdowns, qOut, rtLine>>
    /\ UNCHANGED offQueryVars

PNext == RoundTrip

SpecParse == PInit /\ [][PNext]_vars

\* C20: for every task line, the parse of the line rebuilt from its parse
\* has the same completed, priority and completedDate as the parse.
C20_RoundTrip ==
    rtOut.done =>
        /\ rtOut.second.completed = rtOut.first.completed
        /\ rtOut.second.priority = rtOut.first.priority
        /\ rtOut.second.completedDate = rtOut.first.completedDate

(***************************************************************************)
(* The task parser, clean description (C21)                                *)
(***************************************************************************)
\* the text holds a match of the parser's own tag pattern
\* /\[(created|completed|completion|due|priority):+[^\]]+\]/i
HasMetaTag(s) == \E i \in 1..Len(s) : MetaTagEnd(s, i) # 0

\* C21: the clean description of a parsed line holds no bracketed tag whose
\* key is created, completed, completion, due or priority.
C21_CleanDescriptionHasNoTag ==
    rtOut.done => ~HasMetaTag(rtOut.first.cleanText)

(***************************************************************************)
(* Write-backs to a document that has changed (C22)                        *)
(***************************************************************************)
\* C22: a write-back writes nothing when, at the time of the write, its line
\* number is not a line of the document or the line there is not a task.
C22_StaleWriteAborts == eLast.has /\ eLast.stale => ~eLast.wrote

(***************************************************************************)
(* Exceptions while a view renders (C23)                                   *)
(***************************************************************************)
\* a cachedRead of getTasks rejects (the file was removed, or cannot be
\* read): getTasks and render have no handler around the await, so the
\* promise of render rejects and nothing else of render runs
ScanReject(k) ==
    /\ k \in DOMAIN scans
    /\ scans' = RemoveAt(scans, k)
    /\ lastRender' = [lastRender EXCEPT ![scans[k].view] =
                         [NoRender EXCEPT !.has = TRUE, !.threw = "fetch"]]
    /\ UNCHANGED <<docs, editorOpen, today, heap, taskCache, scanAge, internalAge, changed,
                   loaded, source, lastRenderedHash, refreshTimer, activeCountdowns, items,
                   display, intervals, toggles, clicks, grace, expired>>
    /\ UNCHANGED offViewVars

\* a file whose group key is an inherited property name, beside two plain ones
RenderVault ==
    << [path |-> "Today/x.md", lines |-> <<"- [ ] a">>],
       [path |-> "Work/constructor.md", lines |-> <<"- [ ] c">>],
       [path |-> "Work/y.md", lines |-> <<"- [x] b [completed: 2026-10-31]">>] >>

RenderSources == {"path includes today", "not done", "done"}

RInit ==
    /\ docs = RenderVault
    /\ editorOpen = {}
    /\ source \in [Views -> RenderSources]
    /\ ViewRest
    /\ QueryIdle
    /\ CacheIdle
    /\ WatcherIdle
    /\ EditIdle

RNext ==
    \/ \E v \in Views : Onload(v)
    \/ \E k \in DOMAIN scans : ScanResume(k)
    \/ \E k \in DOMAIN scans : ScanReject(k)
    \/ \E v \in Views : \E k \in DOMAIN items[v] : Click(v, k)
    \/ \E k \in DOMAIN toggles : ToggleResume(k)
    \/ \E k \in DOMAIN toggles : ProcessResume(k)
    \/ MetadataChanged
    \/ \E v \in Views : RefreshFire(v)
    \/ \E v \in Views : \E k \in DOMAIN intervals[v] : IntervalFire(v, k)
    \/ Advance
    \/ Idle

SpecRender == RInit /\ [][RNext]_vars

\* C23: a render that raised an exception leaves the view showing its
\* inline error message.
C23_RenderFailureShown ==
    \A v \in Views : lastRender[v].has /\ lastRender[v].threw # "" => display[v] = "error"

(***************************************************************************)
(* Countdowns beside the editor (C24)                                      *)
(***************************************************************************)
MaxLines == 2

\* 'editor-change': the user inserts a new line above the first line of the
\* active editor, which moves every line below by one
EditorInsert(p, text) ==
    /\ p = wActive /\ p \in editorOpen
    /\ wCount.events < MaxEvents
    /\ Len(DocText(p)) < MaxLines
    /\ docs' = [docs EXCEPT ![FileIndex(p)].lines = <<text>> \o @]
    /\ changed' = TRUE
    /\ wTimers' = Append(ClearTimeout(wTimers, completionTimer),
                         [id |-> wCount.events + 1, rem |-> Quanta(DebounceMs), editor |-> p,
                          own |-> FALSE])
    /\ completionTimer' = wCount.events + 1
    /\ wSince' = [events |-> wSince.events + 1, age |-> 0]
    /\ wCount' = [wCount EXCEPT !.events = @ + 1]
    /\ UNCHANGED <<editorOpen, today, heap, taskCache, scanAge, internalAge, loaded, source,
                   lastRenderedHash, refreshTimer, activeCountdowns, items, display, intervals,
                   scans, toggles, clicks, grace, expired, lastRender>>
    /\ UNCHANGED <<queryVars, cacheVars, editVars, wActive, wLast>>

GraceVault == << [path |-> "Today/x.md", lines |-> <<"- [ ] a">>] >>

GInit ==
    /\ docs = GraceVault
    /\ editorOpen = {"Today/x.md"}
    /\ source = [v \in Views |-> "not done"]
    /\ ViewRest
    /\ QueryIdle
    /\ CacheIdle
    /\ wTimers = <<>>
    /\ completionTimer = 0
    /\ wActive = "Today/x.md"
    /\ wSince = [events |-> 0, age |-> Quanta(DebounceMs)]
    /\ wLast = NoScan
    /\ wCount = [events |-> 0, switches |-> 0]
    /\ EditIdle

GNext ==
    \/ \E v \in Views : Onload(v)
    \/ \E k \in DOMAIN scans : ScanResume(k)
    \/ \E v \in Views : \E k \in DOMAIN items[v] : Click(v, k)
    \/ \E k \in DOMAIN toggles : ToggleResume(k)
    \/ \E v \in Views : \E k \in DOMAIN intervals[v] : IntervalFire(v, k)
    \/ MetadataChanged
    \/ \E v \in Views : RefreshFire(v)
    \/ /\ \E v \in Views : activeCountdowns[v] # {}   \* the user types during a countdown
       /\ \E p \in editorOpen : EditorInsert(p, "- [ ] n")
    \/ \E k \in DOMAIN wTimers : WatcherFire(k)
    \/ Advance
    \/ Idle

SpecGrace == GInit /\ [][GNext]_vars

\* C24: a watcher scan removes no active countdown of any view.  (The user
\* never touches a checkbox in the editor here, so every status-change event
\* that could remove one belongs to another task line.)
C24_ScanKeepsCountdowns == wLast.has => wLast.cancelled = {}

(***************************************************************************)
(* Last write wins on timers (C25)                                         *)
(***************************************************************************)
\* C25: when a host change notification arrives while a view's settle timer
\* is pending, the timer is replaced by one for the notification: it is due
\* a full settle delay after the notification.
C25_NewerEventReplacesTimer ==
    [][MetadataChanged =>
          \A v \in Views :
              loaded[v] /\ refreshTimer[v].on =>
                  refreshTimer'[v] = [on |-> TRUE, rem |-> Quanta(SettleDelay), forced |-> FALSE]]_vars

(***************************************************************************)
(* The completed field of a scanned task (C26)                             *)
(***************************************************************************)
\* C26: the record of a task line found by a scan is completed exactly when
\* the status character of the line's checkbox is x or X.
C26_CompletedIsStatusChar ==
    rtOut.done /\ ListItemTask(rtLine) # "" =>
        (rtOut.first.completed <=> ListItemTask(rtLine) \in {"x", "X"})

(***************************************************************************)
(* Scans beside a write-back in progress (C27)                             *)
(***************************************************************************)
\* C27: no getTasks scan reads a document, and with that read fills the
\* cache, while a write-back to the document stands between its read of the
\* document and its write.
C27_NoScanDuringWriteBack ==
    [][\A k \in DOMAIN scans :
          ScanResume(k) /\ NextListFile(scans[k].idx) = 0 =>
              ~\E t \in DOMAIN toggles :
                   /\ toggles[t].stage = "process"
                   /\ FileIndex(heap[toggles[t].obj].path) = scans[k].idx]_vars

(***************************************************************************)
(* What a view shows when its render returns (C28)                         *)
(***************************************************************************)
\* C28: when a render returns, rebuilt or skipped, and no countdown is
\* active in the view, every item shows the completed value of its task's
\* record in the result of that render.
C28_DisplayMatchesData ==
    \A v \in Views :
        lastRender[v].has /\ lastRender[v].threw = "" /\ lastRender[v].quiet
            => lastRender[v].agrees

(***************************************************************************)
(* Completion tags of a written line (C29)                                 *)
(***************************************************************************)
\* C29: the line a write-back writes holds exactly one completion tag when
\* it is written as completed, and none when it is written as not
\* completed.
C29_OneCompletionTag ==
    eLast.has /\ eLast.wrote =>
        CountCompletion(eLast.line) = IF eLast.completed THEN 1 ELSE 0

(***************************************************************************)
(* The watcher after its own rewrites (C30)                                *)
(***************************************************************************)
\* C30: a scan that answers only the change events of the scan before, the
\* user having typed nothing since, rewrites no line (and so sets no new
\* timeout, leaves lastInternalUpdate and the cache alone).
C30_OwnChangesSettle == wLast.has /\ wLast.own => wLast.after = wLast.before

====
